---- MODULE Spec2Model ----
(***************************************************************************)
(* NAT checker: the detection pipeline (local probe, mapping analyzer,     *)
(* NAT classifier, advanced-test orchestrator, detection state machine).   *)
(*                                                                         *)
(* JavaScript strings whose content the code inspects (error messages) are *)
(* tuples of one-character strings, so that === and String.includes are     *)
(* computed, case-sensitively, as the code computes them.  Address strings *)
(* are records holding what the code reads from them: whether they are     *)
(* null or empty, their dot-separated parts converted by Number (NaN for a *)
(* part that is not a number) and whether they end in ".local".            *)
(***************************************************************************)
EXTENDS Integers, Sequences, FiniteSets, TLC

VARIABLES
  args,                \* the arguments a pure function is applied to
  ret,                 \* what the function returned (Null before the call)
  called,              \* TRUE once the function has been applied
  now,                 \* the clock, in ms since the current run started
  hasRTC,              \* typeof RTCPeerConnection !== "undefined"
  isAdvancedAvailable, \* useNATDetection: useState(false)
  availabilityPending, \* the mount effect's GET has not answered yet
  result,              \* useNATDetection: the published DetectionResult
  runs,                \* number of runDetection calls so far
  method,              \* the current run's path: "basic" | "advanced" | "none"
  runStartedAt,        \* startedAt captured by the current run
  pcs,                 \* the RTCPeerConnection objects the current run constructed
  pcPhase,             \* the run's RTCPeerConnection: "none" | "new" | "gathering" | "closed"
  candidates,          \* detectWithMultipleServers: candidates
  resolved,            \* detectWithMultipleServers: resolved
  promise,             \* detectWithMultipleServers' promise: "none" | "pending" | "resolved" | "rejected"
  detected,            \* what detectNAT returned or threw in the current run (Null while pending)
  ceilingFired,        \* the current run's ceiling timer called reject
  timers,              \* pending setTimeout callbacks
  fetchPending,        \* detectNATAdvanced awaits the POST
  basicResult,         \* detectNATAdvanced: basicResult, held across the POST
  sockets,             \* the STUN test server: each listener's socket, by port
  delivered,           \* the datagrams its listeners received, in order
  sent,                \* the socket.send calls its listeners made, in order
  isShuttingDown,      \* the custom server: isShuttingDown
  signalHandlers,      \* its SIGTERM and SIGINT listeners are registered
  stunsClosed,         \* shutdown: stunsClosed
  httpServer,          \* httpServer: "starting" | "listening" | "closing" | "closed"
  fallbackTimer,       \* shutdown's 3000 ms timer: "none" | "pending" | "fired"
  exitCode,            \* "none" while the process runs, else "0" | "1" | "signal"
  shutdownRuns,        \* number of times shutdown ran its closing sequence
  triggers             \* the signals and uncaught errors delivered so far, in order

pureVars == <<args, ret, called>>
hookVars == <<isAdvancedAvailable, availabilityPending, result, runs, method, runStartedAt>>
probeVars == <<pcPhase, candidates, resolved, promise, detected, ceilingFired, timers>>
advancedVars == <<fetchPending, basicResult>>
stunVars == <<sockets, delivered, sent>>
serverVars == <<isShuttingDown, signalHandlers, stunsClosed, httpServer, fallbackTimer,
                exitCode, shutdownRuns, triggers>>
vars == <<args, ret, called, now, hasRTC, pcs, isAdvancedAvailable, availabilityPending,
          result, runs, method, runStartedAt, pcPhase, candidates, resolved,
          promise, detected, ceilingFired, timers, fetchPending, basicResult,
          sockets, delivered, sent, isShuttingDown, signalHandlers, stunsClosed,
          httpServer, fallbackTimer, exitCode, shutdownRuns, triggers>>

----------------------------------------------------------------------------
(* Bounds of the model *)

MaxCandidates == 3
MaxTimingCandidates == 4
MaxMappings == 2
MaxRuns == 2
MaxHookCandidates == 2
MaxAnalyses == 3
MaxTriggers == 3
MaxAttrs == 3
MaxDatagrams == 2
TickMs == 1000

----------------------------------------------------------------------------
(* Strings *)

\* "TIMEOUT"
MSG_TIMEOUT ==
  <<"T","I","M","E","O","U","T">>
\* "STUN_UNREACHABLE"
MSG_STUN_UNREACHABLE ==
  <<"S","T","U","N","_","U","N","R","E","A","C","H","A","B","L","E">>
\* "BROWSER_UNSUPPORTED"
MSG_BROWSER_UNSUPPORTED ==
  <<"B","R","O","W","S","E","R","_","U","N","S","U","P","P","O","R","T","E",
    "D">>
\* "Detection timeout"
MSG_DetectionTimeout ==
  <<"D","e","t","e","c","t","i","o","n"," ","t","i","m","e","o","u","t">>
\* "No host candidate found"
MSG_NoHostCandidateFound ==
  <<"N","o"," ","h","o","s","t"," ","c","a","n","d","i","d","a","t","e"," ",
    "f","o","u","n","d">>
\* "Failed to get public IP/port from basic detection"
MSG_FailedToGetPublic ==
  <<"F","a","i","l","e","d"," ","t","o"," ","g","e","t"," ","p","u","b","l",
    "i","c"," ","I","P","/","p","o","r","t"," ","f","r","o","m"," ","b","a",
    "s","i","c"," ","d","e","t","e","c","t","i","o","n">>
\* "The RTCPeerConnection's signalingState is 'closed'."
MSG_OfferRejected ==
  <<"T","h","e"," ","R","T","C","P","e","e","r","C","o","n","n","e","c","t",
    "i","o","n","'","s"," ","s","i","g","n","a","l","i","n","g","S","t","a",
    "t","e"," ","i","s"," ","'","c","l","o","s","e","d","'",".">>
\* "Failed to fetch"
MSG_FailedToFetch ==
  <<"F","a","i","l","e","d"," ","t","o"," ","f","e","t","c","h">>
\* "Server API returned 500: Internal Server Error"
MSG_ServerApiReturned500 ==
  <<"S","e","r","v","e","r"," ","A","P","I"," ","r","e","t","u","r","n","e",
    "d"," ","5","0","0",":"," ","I","n","t","e","r","n","a","l"," ","S","e",
    "r","v","e","r"," ","E","r","r","o","r">>
\* "timeout"
SUB_timeout ==
  <<"t","i","m","e","o","u","t">>
\* "No host candidate"
SUB_NoHostCandidate ==
  <<"N","o"," ","h","o","s","t"," ","c","a","n","d","i","d","a","t","e">>
\* "failed"
SUB_failed ==
  <<"f","a","i","l","e","d">>
\* "unsupported"
SUB_unsupported ==
  <<"u","n","s","u","p","p","o","r","t","e","d">>
\* "RTCPeerConnection"
SUB_RTCPeerConnection ==
  <<"R","T","C","P","e","e","r","C","o","n","n","e","c","t","i","o","n">>
\* "permission"
SUB_permission ==
  <<"p","e","r","m","i","s","s","i","o","n">>

\* String.prototype.includes: sub occurs in s as a contiguous run of characters
Includes(s, sub) ==
  \E i \in 1..(Len(s) - Len(sub) + 1) : SubSeq(s, i, i + Len(sub) - 1) = sub

----------------------------------------------------------------------------
(* Nullable values: null is the empty tuple, a value v is <<v>> *)

Null == <<>>
Some(v) == <<v>>
IsNull(x) == x = <<>>
Val(x) == x[1]

NoValue == "null"
NoTime == -1
NoPort == -1

----------------------------------------------------------------------------
(* Address strings *)

NaN == -1

NullStr == [kind |-> "null", parts |-> <<>>, local |-> FALSE]
EmptyStr == [kind |-> "empty", parts |-> <<0>>, local |-> FALSE]
IPv4(a, b, c, d) == [kind |-> "str", parts |-> <<a, b, c, d>>, local |-> FALSE]
\* a privacy-obfuscated host name "<uuid>.local"
MDNSName == [kind |-> "str", parts |-> <<NaN, NaN>>, local |-> TRUE]

\* JavaScript truthiness of a string-or-null, and a || b
Falsy(s) == s.kind \in {"null", "empty"}
OrStr(a, b) == IF Falsy(a) THEN b ELSE a

\* ip.match(/^[\d.]+$/): digits and dots only
MatchesDigitsAndDots(s) ==
  /\ s.kind = "str"
  /\ \A i \in DOMAIN s.parts : s.parts[i] # NaN

\* localIP.endsWith(".local")
EndsWithLocal(s) == s.kind = "str" /\ s.local

\* isPrivateIP: RFC 1918 ranges, on ip.split(".").map(Number)
isPrivateIP(ip) ==
  LET octets == ip.parts IN
  IF Len(octets) # 4 \/ \E i \in DOMAIN octets : octets[i] = NaN THEN FALSE
  ELSE IF octets[1] = 10 THEN TRUE
  ELSE IF octets[1] = 172 /\ octets[2] >= 16 /\ octets[2] <= 31 THEN TRUE
  ELSE IF octets[1] = 192 /\ octets[2] = 168 THEN TRUE
  ELSE FALSE

\* a range test that also accepts 100.128.x.x
isCGNATIP_UpTo128(ip) ==
  LET octets == ip.parts IN
  IF Len(octets) # 4 \/ \E i \in DOMAIN octets : octets[i] = NaN THEN FALSE
  ELSE IF octets[1] = 100 /\ octets[2] >= 64 /\ octets[2] <= 128 THEN TRUE
  ELSE FALSE

\* isCGNATIP: RFC 6598 range 100.64.0.0/10
isCGNATIP(ip) ==
  LET octets == ip.parts IN
  IF Len(octets) # 4 \/ \E i \in DOMAIN octets : octets[i] = NaN THEN FALSE
  ELSE IF octets[1] = 100 /\ octets[2] >= 64 /\ octets[2] <= 127 THEN TRUE
  ELSE FALSE

----------------------------------------------------------------------------
(* ICE candidates.  sdp is the address field (parts[4]) of the candidate   *)
(* string, EmptyStr when the candidate string itself is empty; address and *)
(* ip are the properties of the same names; port 0 stands for a port that  *)
(* is 0 or null (the code only tests its truthiness).                      *)

Candidate(type, sdp, address, ip, port) ==
  [type |-> type, sdp |-> sdp, address |-> address, ip |-> ip, port |-> port]

\* candidates.find((c) => c.type === t), null when there is none
FindType(cands, t) ==
  LET idx == {i \in DOMAIN cands : cands[i].type = t} IN
  IF idx = {} THEN Null
  ELSE Some(cands[CHOOSE i \in idx : \A j \in idx : i <= j])

\* extractIPFromCandidate
extractIPFromCandidate(c) ==
  IF Falsy(c.sdp) THEN NullStr
  ELSE IF MatchesDigitsAndDots(c.sdp) THEN c.sdp
  ELSE OrStr(OrStr(c.address, c.ip), NullStr)

\* extractIPInfo: [ok |-> FALSE, error] when it throws, else [ok |-> TRUE, value]
extractIPInfo(cands) ==
  LET hostCandidate == FindType(cands, "host")
      srflxCandidate == FindType(cands, "srflx")
  IN
  IF IsNull(hostCandidate)
  THEN [ok |-> FALSE, error |-> MSG_NoHostCandidateFound]
  ELSE
    LET host == Val(hostCandidate)
        localIP == OrStr(OrStr(OrStr(extractIPFromCandidate(host), host.address),
                               host.ip), EmptyStr)
        publicIP ==
          IF IsNull(srflxCandidate) THEN NullStr
          ELSE LET srflx == Val(srflxCandidate) IN
               OrStr(OrStr(OrStr(extractIPFromCandidate(srflx), srflx.address),
                           srflx.ip), NullStr)
        publicPort ==
          IF IsNull(srflxCandidate) \/ Val(srflxCandidate).port = 0
          THEN NoPort ELSE Val(srflxCandidate).port
        isMDNS == EndsWithLocal(localIP)
        isBehindLocalNAT == isMDNS \/ isPrivateIP(localIP)
        isBehindCGNAT == IF ~Falsy(publicIP) THEN isCGNATIP(publicIP) ELSE FALSE
    IN [ok |-> TRUE,
        value |-> [localIP |-> localIP,
                   publicIP |-> publicIP,
                   publicPort |-> publicPort,
                   isBehindLocalNAT |-> isBehindLocalNAT,
                   isBehindCGNAT |-> isBehindCGNAT]]

\* a map callback that keeps the entries with port 0
MappingOf_KeepsPortZero(c) ==
  LET ip == OrStr(c.address, c.ip)
      port == c.port
  IN IF Falsy(ip) THEN Null ELSE Some([ip |-> ip, port |-> port])

\* the .map(...) of analyzePortMapping: null (<<>>) for an invalid entry
MappingOf(c) ==
  LET ip == OrStr(c.address, c.ip)
      port == c.port
  IN IF Falsy(ip) \/ port = 0 THEN Null ELSE Some([ip |-> ip, port |-> port])

IsSrflx(c) == c.type = "srflx"
NotNullEntry(m) == ~IsNull(m)

\* an analyzer that keeps the invalid entries
analyzePortMapping_NoFilter(cands) ==
  LET srflxCandidates == SelectSeq(cands, IsSrflx)
      mappings == [i \in 1..Len(srflxCandidates) |->
                     [ip |-> OrStr(srflxCandidates[i].address, srflxCandidates[i].ip),
                      port |-> srflxCandidates[i].port]]
      uniqueIPs == {mappings[i].ip : i \in DOMAIN mappings}
      uniquePorts == {mappings[i].port : i \in DOMAIN mappings}
  IN
  IF Len(mappings) = 0
  THEN [isPortConsistent |-> FALSE, isIPConsistent |-> FALSE, observedMappings |-> <<>>]
  ELSE IF Len(mappings) = 1
  THEN [isPortConsistent |-> TRUE, isIPConsistent |-> TRUE, observedMappings |-> mappings]
  ELSE [isPortConsistent |-> Cardinality(uniquePorts) <= 1,
        isIPConsistent |-> Cardinality(uniqueIPs) <= 1,
        observedMappings |-> mappings]

\* an analyzer that tolerates two different ports
analyzePortMapping_PortOffByOne(cands) ==
  LET srflxCandidates == SelectSeq(cands, IsSrflx)
      mapped == [i \in 1..Len(srflxCandidates) |-> MappingOf(srflxCandidates[i])]
      filtered == SelectSeq(mapped, NotNullEntry)
      mappings == [i \in 1..Len(filtered) |-> Val(filtered[i])]
      uniqueIPs == {mappings[i].ip : i \in DOMAIN mappings}
      uniquePorts == {mappings[i].port : i \in DOMAIN mappings}
  IN
  IF Len(mappings) = 0
  THEN [isPortConsistent |-> FALSE, isIPConsistent |-> FALSE, observedMappings |-> <<>>]
  ELSE IF Len(mappings) = 1
  THEN [isPortConsistent |-> TRUE, isIPConsistent |-> TRUE, observedMappings |-> mappings]
  ELSE [isPortConsistent |-> Cardinality(uniquePorts) <= 2,
        isIPConsistent |-> Cardinality(uniqueIPs) <= 1,
        observedMappings |-> mappings]

\* analyzePortMapping
analyzePortMapping(cands) ==
  LET srflxCandidates == SelectSeq(cands, IsSrflx)
      mapped == [i \in 1..Len(srflxCandidates) |-> MappingOf(srflxCandidates[i])]
      filtered == SelectSeq(mapped, NotNullEntry)
      mappings == [i \in 1..Len(filtered) |-> Val(filtered[i])]
      uniqueIPs == {mappings[i].ip : i \in DOMAIN mappings}
      uniquePorts == {mappings[i].port : i \in DOMAIN mappings}
  IN
  IF Len(mappings) = 0
  THEN [isPortConsistent |-> FALSE, isIPConsistent |-> FALSE, observedMappings |-> <<>>]
  ELSE IF Len(mappings) = 1
  THEN [isPortConsistent |-> TRUE, isIPConsistent |-> TRUE, observedMappings |-> mappings]
  ELSE [isPortConsistent |-> Cardinality(uniquePorts) <= 1,
        isIPConsistent |-> Cardinality(uniqueIPs) <= 1,
        observedMappings |-> mappings]

----------------------------------------------------------------------------
(* NAT classifier *)

NATType == {"CONE_NAT", "FULL_CONE", "RESTRICTED_CONE", "PORT_RESTRICTED_CONE",
            "SYMMETRIC", "NO_NAT", "MULTIPLE_LAYERS"}

\* a classifier that tests mapping consistency before the address-range facts
classifyBranch_ConsistencyFirst(ipInfo, portMapping) ==
  IF ~portMapping.isPortConsistent \/ ~portMapping.isIPConsistent THEN 3
  ELSE IF ipInfo.isBehindLocalNAT /\ ipInfo.isBehindCGNAT THEN 1
  ELSE IF ~ipInfo.isBehindLocalNAT /\ ~ipInfo.isBehindCGNAT THEN 2
  ELSE 4

\* a classifier whose symmetric test reads the port flag only
classifyBranch_PortOnly(ipInfo, portMapping) ==
  IF ipInfo.isBehindLocalNAT /\ ipInfo.isBehindCGNAT THEN 1
  ELSE IF ~ipInfo.isBehindLocalNAT /\ ~ipInfo.isBehindCGNAT THEN 2
  ELSE IF ~portMapping.isPortConsistent THEN 3
  ELSE IF portMapping.isIPConsistent /\ portMapping.isPortConsistent THEN 4
  ELSE 5

\* a classifier whose NO_NAT test ignores the carrier-grade flag
classifyBranch_NoNatLocalOnly(ipInfo, portMapping) ==
  IF ipInfo.isBehindLocalNAT /\ ipInfo.isBehindCGNAT THEN 1
  ELSE IF ~ipInfo.isBehindLocalNAT THEN 2
  ELSE IF ~portMapping.isPortConsistent \/ ~portMapping.isIPConsistent THEN 3
  ELSE IF portMapping.isIPConsistent /\ portMapping.isPortConsistent THEN 4
  ELSE 5

\* which return statement of classifyNAT is taken (1..5, 5 the fallback)
classifyBranch(ipInfo, portMapping) ==
  IF ipInfo.isBehindLocalNAT /\ ipInfo.isBehindCGNAT THEN 1
  ELSE IF ~ipInfo.isBehindLocalNAT /\ ~ipInfo.isBehindCGNAT THEN 2
  ELSE IF ~portMapping.isPortConsistent \/ ~portMapping.isIPConsistent THEN 3
  ELSE IF portMapping.isIPConsistent /\ portMapping.isPortConsistent THEN 4
  ELSE 5

\* the value each return statement returns
BranchValue(b) ==
  CASE b = 1 -> "MULTIPLE_LAYERS"
    [] b = 2 -> "NO_NAT"
    [] b = 3 -> "SYMMETRIC"
    [] b = 4 -> "CONE_NAT"
    [] b = 5 -> "SYMMETRIC"

classifyNAT(ipInfo, portMapping) == BranchValue(classifyBranch(ipInfo, portMapping))

----------------------------------------------------------------------------
(* classifyNAT as a pure function: every combination of the four flags,    *)
(* with observed mappings of every shape up to MaxMappings                 *)

PrivateLocal == IPv4(192, 168, 1, 5)
PublicLocal == IPv4(8, 8, 8, 8)
PublicA == IPv4(203, 0, 113, 10)
CGNATPublic == IPv4(100, 64, 0, 1)
PortA == 40000
PortB == 40001

MappingInputs ==
  {[ip |-> PublicA, port |-> PortA], [ip |-> PublicA, port |-> PortB],
   [ip |-> CGNATPublic, port |-> PortA]}

SeqsUpTo(S, n) == UNION {[1..k -> S] : k \in 0..n}

IpInfoInputs ==
  {[localIP |-> IF l THEN PrivateLocal ELSE PublicLocal,
    publicIP |-> IF g THEN CGNATPublic ELSE PublicA,
    publicPort |-> PortA,
    isBehindLocalNAT |-> l,
    isBehindCGNAT |-> g] : l \in BOOLEAN, g \in BOOLEAN}

PortMappingInputs ==
  {[isPortConsistent |-> p, isIPConsistent |-> i, observedMappings |-> m] :
     p \in BOOLEAN, i \in BOOLEAN, m \in SeqsUpTo(MappingInputs, MaxMappings)}

----------------------------------------------------------------------------
(* The detection state machine (useNATDetection) and its results *)

TOTAL_TIMEOUT == 15000

IdleResult ==
  [state |-> "IDLE", natType |-> NoValue, startedAt |-> 0, completedAt |-> NoTime,
   durationMs |-> NoTime, ipInfo |-> Null, portMapping |-> Null, error |-> Null,
   successfulSTUNServer |-> NoValue, confidence |-> NoValue,
   confidenceReason |-> Null, detectionMethod |-> NoValue]

\* a first setResult that leaves a confidence in place
DetectingResult_StaleConfidence(startedAt) ==
  [state |-> "DETECTING", natType |-> NoValue, startedAt |-> startedAt,
   completedAt |-> NoTime, durationMs |-> NoTime, ipInfo |-> Null,
   portMapping |-> Null, error |-> Null, successfulSTUNServer |-> NoValue,
   confidence |-> "low", confidenceReason |-> Null, detectionMethod |-> NoValue]

\* runDetection: the first setResult
DetectingResult(startedAt) ==
  [state |-> "DETECTING", natType |-> NoValue, startedAt |-> startedAt,
   completedAt |-> NoTime, durationMs |-> NoTime, ipInfo |-> Null,
   portMapping |-> Null, error |-> Null, successfulSTUNServer |-> NoValue,
   confidence |-> NoValue, confidenceReason |-> Null, detectionMethod |-> NoValue]

\* runDetection: the chain of tests on rawErrorMessage in the catch block
MapErrorType(rawErrorMessage) ==
  IF rawErrorMessage = MSG_TIMEOUT \/ Includes(rawErrorMessage, SUB_timeout)
  THEN "TIMEOUT"
  ELSE IF rawErrorMessage = MSG_STUN_UNREACHABLE \/ Includes(rawErrorMessage, SUB_failed)
  THEN "STUN_UNREACHABLE"
  ELSE IF Includes(rawErrorMessage, SUB_unsupported)
          \/ Includes(rawErrorMessage, SUB_RTCPeerConnection)
  THEN "BROWSER_UNSUPPORTED"
  ELSE IF Includes(rawErrorMessage, SUB_permission)
  THEN "PERMISSION_DENIED"
  ELSE "UNKNOWN"

\* runDetection: the result published after detectNAT returned d
BasicSuccessResult(startedAt, completedAt, d) ==
  [state |-> "SUCCESS", natType |-> classifyNAT(d.ipInfo, d.portMapping),
   startedAt |-> startedAt, completedAt |-> completedAt,
   durationMs |-> completedAt - startedAt, ipInfo |-> Some(d.ipInfo),
   portMapping |-> Some(d.portMapping), error |-> Null,
   successfulSTUNServer |-> d.successfulServer, confidence |-> d.confidence,
   confidenceReason |-> d.confidenceReason, detectionMethod |-> "basic"]

\* runDetection: the result published by the catch block
BasicErrorResult(startedAt, completedAt, rawErrorMessage) ==
  [state |-> "ERROR", natType |-> NoValue, startedAt |-> startedAt,
   completedAt |-> completedAt, durationMs |-> completedAt - startedAt,
   ipInfo |-> Null, portMapping |-> Null,
   error |-> Some([type |-> MapErrorType(rawErrorMessage), message |-> rawErrorMessage]),
   successfulSTUNServer |-> NoValue, confidence |-> NoValue,
   confidenceReason |-> Null, detectionMethod |-> NoValue]

----------------------------------------------------------------------------
(* Advanced-test orchestrator: the POST handler and its client *)

\* performAdvancedTests: the four test records as the code sets them
test1 == [passed |-> TRUE]
test2 == [passed |-> FALSE]
test3 == [passed |-> FALSE]
test4 == [passed |-> TRUE]

\* a resolution that looks at Test II before Test IV
ResolveTests_Test2First(t2, t3, t4) ==
  IF t2.passed
  THEN [natType |-> "FULL_CONE",
        confidenceReason |-> <<"High confidence: Received response from different IP:port">>]
  ELSE IF ~t4.passed
  THEN [natType |-> "SYMMETRIC",
        confidenceReason |-> <<"High confidence: Different external ports observed per destination">>]
  ELSE IF t3.passed
  THEN [natType |-> "RESTRICTED_CONE",
        confidenceReason |-> <<"High confidence: Received response from different port on same IP">>]
  ELSE [natType |-> "PORT_RESTRICTED_CONE",
        confidenceReason |-> <<"High confidence: Did not receive response from different IP:port combination">>]

\* performAdvancedTests: the resolution of the test outcomes
ResolveTests(t2, t3, t4) ==
  IF ~t4.passed
  THEN [natType |-> "SYMMETRIC",
        confidenceReason |-> <<"High confidence: Different external ports observed per destination">>]
  ELSE IF t2.passed
  THEN [natType |-> "FULL_CONE",
        confidenceReason |-> <<"High confidence: Received response from different IP:port">>]
  ELSE IF t3.passed
  THEN [natType |-> "RESTRICTED_CONE",
        confidenceReason |-> <<"High confidence: Received response from different port on same IP">>]
  ELSE [natType |-> "PORT_RESTRICTED_CONE",
        confidenceReason |-> <<"High confidence: Did not receive response from different IP:port combination">>]

\* performAdvancedTests: the response body
performAdvancedTests(req) ==
  LET r == ResolveTests(test2, test3, test4) IN
  [success |-> TRUE, natType |-> r.natType, confidence |-> "high",
   confidenceReason |-> r.confidenceReason,
   tests |-> [test1 |-> test1, test2 |-> test2, test3 |-> test3, test4 |-> test4]]

\* detectNATAdvanced: the result built from the server's answer
AdvancedSuccessResult(startedAt, completedAt, basic, advancedData) ==
  [state |-> "SUCCESS",
   natType |-> IF advancedData.natType = NoValue THEN "CONE_NAT" ELSE advancedData.natType,
   startedAt |-> startedAt, completedAt |-> completedAt,
   durationMs |-> completedAt - startedAt, ipInfo |-> Some(basic.ipInfo),
   portMapping |-> Some(basic.portMapping), error |-> Null,
   successfulSTUNServer |-> "Advanced Detection (RFC 5780)",
   confidence |-> advancedData.confidence,
   confidenceReason |-> advancedData.confidenceReason,
   detectionMethod |-> "advanced"]

\* a catch block that swaps the two timestamps
AdvancedErrorResult_SwappedTimes(startedAt, completedAt, message) ==
  [state |-> "ERROR", natType |-> NoValue, startedAt |-> completedAt,
   completedAt |-> startedAt, durationMs |-> completedAt - startedAt,
   ipInfo |-> Null, portMapping |-> Null,
   error |-> Some([type |-> "UNKNOWN", message |-> message]),
   successfulSTUNServer |-> NoValue, confidence |-> NoValue,
   confidenceReason |-> Null, detectionMethod |-> "advanced"]

\* detectNATAdvanced: the result its catch block returns
AdvancedErrorResult(startedAt, completedAt, message) ==
  [state |-> "ERROR", natType |-> NoValue, startedAt |-> startedAt,
   completedAt |-> completedAt, durationMs |-> completedAt - startedAt,
   ipInfo |-> Null, portMapping |-> Null,
   error |-> Some([type |-> "UNKNOWN", message |-> message]),
   successfulSTUNServer |-> NoValue, confidence |-> NoValue,
   confidenceReason |-> Null, detectionMethod |-> "advanced"]

\* detectNATAdvanced: !publicIP || !publicPort
MissingPublic(ipInfo) == Falsy(ipInfo.publicIP) \/ ipInfo.publicPort = NoPort

----------------------------------------------------------------------------
(* The local probe (detectWithMultipleServers, detectNAT) *)

\* the configured STUN servers, in priority order
STUN_SERVERS ==
  <<[url |-> "stun:stun.l.google.com:19302", priority |-> 1],
    [url |-> "stun:stun1.l.google.com:19302", priority |-> 2],
    [url |-> "stun:stun.stunprotocol.org:3478", priority |-> 3],
    [url |-> "stun:stun.voip.blackberry.com:3478", priority |-> 4]>>

\* a probe that opens one connection per server
CreateConnections_PerServer(servers) ==
  [i \in DOMAIN servers |-> [iceServers |-> <<[urls |-> servers[i].url]>>]]

\* detectWithMultipleServers: the connections it constructs, with their
\* configuration: new RTCPeerConnection({iceServers: servers.map(...)})
CreateConnections(servers) ==
  <<[iceServers |-> [i \in DOMAIN servers |-> [urls |-> servers[i].url]]]>>

\* the candidates the ICE agent may report
CandidateInputs ==
  {Candidate("host", PrivateLocal, PrivateLocal, NullStr, 50000),
   Candidate("host", PublicLocal, PublicLocal, NullStr, 50000),
   Candidate("srflx", PublicA, PublicA, NullStr, PortA),
   Candidate("srflx", PublicA, PublicA, NullStr, PortB),
   Candidate("srflx", CGNATPublic, CGNATPublic, NullStr, PortA),
   \* a browser that exposes no address property on the candidate
   Candidate("srflx", PublicA, NullStr, NullStr, PortA),
   \* an incomplete candidate: port 0
   Candidate("srflx", PublicA, PublicA, NullStr, 0)}

Count(cands, t) == Cardinality({i \in DOMAIN cands : cands[i].type = t})

\* onicecandidate: the adaptive wait for srflxCount observed srflx candidates
WaitTime(srflxCount) ==
  IF srflxCount = 1 THEN 5000
  ELSE IF srflxCount = 2 THEN 2000
  ELSE 1000

\* finishGathering: what it resolves with (ok) or rejects with (not ok)
GatheringOutcome(cands) ==
  LET e == extractIPInfo(cands) IN
  IF ~e.ok THEN [ok |-> FALSE, error |-> e.error]
  ELSE
    LET portMapping == analyzePortMapping(cands)
        srflxCount == Len(portMapping.observedMappings)
        confidence == IF srflxCount >= 2 THEN "high" ELSE "low"
        confidenceReason ==
          IF srflxCount >= 2
          THEN <<"High confidence: STUN servers responded", srflxCount>>
          ELSE <<"Low confidence: Only STUN server responded", srflxCount>>
        successfulServers ==
          IF Count(cands, "srflx") > 0 THEN {"STUN server (via ICE)"} ELSE {}
    IN [ok |-> TRUE,
        value |-> [ipInfo |-> e.value, portMapping |-> portMapping,
                   successfulServers |-> successfulServers,
                   confidence |-> confidence,
                   confidenceReason |-> confidenceReason]]

\* a catch block that looks for "Timeout" with a capital
DetectNATError_CapitalTimeout(errorMessage) ==
  IF Includes(errorMessage, <<"T","i","m","e","o","u","t">>) THEN MSG_TIMEOUT
  ELSE IF Includes(errorMessage, SUB_NoHostCandidate) THEN MSG_STUN_UNREACHABLE
  ELSE MSG_STUN_UNREACHABLE

\* detectNAT: the catch block's mapping of the probe's error message
DetectNATError(errorMessage) ==
  IF Includes(errorMessage, SUB_timeout) THEN MSG_TIMEOUT
  ELSE IF Includes(errorMessage, SUB_NoHostCandidate) THEN MSG_STUN_UNREACHABLE
  ELSE MSG_STUN_UNREACHABLE

\* detectNAT: what it returns (ok) or throws (not ok) once the probe settled with o
DetectNATOutcome(o) ==
  IF ~o.ok THEN [ok |-> FALSE, error |-> DetectNATError(o.error)]
  ELSE [ok |-> TRUE,
        value |-> [ipInfo |-> o.value.ipInfo,
                   portMapping |-> o.value.portMapping,
                   successfulServer |->
                     IF o.value.successfulServers = {} THEN "STUN (via ICE)"
                     ELSE "STUN server (via ICE)",
                   confidence |-> o.value.confidence,
                   confidenceReason |-> o.value.confidenceReason]]

\* the continuation of the run once detectNAT returned or threw d:
\* runDetection's try/catch on the basic path, detectNATAdvanced on the other
AfterDetectNAT(d) ==
  /\ detected' = Some(d)
  /\ IF method = "basic"
     THEN /\ result' = IF d.ok THEN BasicSuccessResult(runStartedAt, now, d.value)
                       ELSE BasicErrorResult(runStartedAt, now, d.error)
          /\ UNCHANGED <<fetchPending, basicResult>>
     ELSE IF ~d.ok
     THEN /\ result' = AdvancedErrorResult(runStartedAt, now, d.error)
          /\ UNCHANGED <<fetchPending, basicResult>>
     ELSE IF MissingPublic(d.value.ipInfo)
     THEN /\ result' = AdvancedErrorResult(runStartedAt, now, MSG_FailedToGetPublic)
          /\ UNCHANGED <<fetchPending, basicResult>>
     ELSE /\ fetchPending' = TRUE
          /\ basicResult' = Some(d.value)
          /\ UNCHANGED result

\* a pending setTimeout callback; seq tells apart the timers of two arrivals
Timer(kind, deadline, seq) == [kind |-> kind, deadline |-> deadline, seq |-> seq]

\* clearTimeout(timeoutId) removes these
CeilingTimers == {t \in timers : t.kind = "ceiling"}

\* a finishGathering whose resolve replaces an outcome already decided
FinishGathering_SettlesAgain(pending) ==
  IF resolved
  THEN /\ timers' = pending
       /\ UNCHANGED <<pcPhase, resolved, promise, detected, result, fetchPending, basicResult>>
  ELSE /\ resolved' = TRUE
       /\ timers' = pending \ CeilingTimers
       /\ pcPhase' = "closed"
       /\ LET o == GatheringOutcome(candidates) IN
          /\ promise' = IF o.ok THEN "resolved" ELSE "rejected"
          /\ AfterDetectNAT(DetectNATOutcome(o))

\* finishGathering, called with the timers left pending by its caller
FinishGathering(pending) ==
  IF resolved
  THEN /\ timers' = pending
       /\ UNCHANGED <<pcPhase, resolved, promise, detected, result, fetchPending, basicResult>>
  ELSE /\ resolved' = TRUE
       /\ timers' = pending \ CeilingTimers
       /\ pcPhase' = "closed"
       /\ IF promise = "pending"
          THEN LET o == GatheringOutcome(candidates) IN
               /\ promise' = IF o.ok THEN "resolved" ELSE "rejected"
               /\ AfterDetectNAT(DetectNATOutcome(o))
          ELSE UNCHANGED <<promise, detected, result, fetchPending, basicResult>>

----------------------------------------------------------------------------
(* The STUN test server: message codec *)

PORTS_PRIMARY == 3478
PORTS_SECONDARY == 3479
PORTS_TERTIARY == 3480
PORTS == {PORTS_PRIMARY, PORTS_SECONDARY, PORTS_TERTIARY}

BINDING_REQUEST == 1
BINDING_RESPONSE == 257
STUN_MAGIC_COOKIE == 554869826
XOR_MAPPED_ADDRESS == 32
CHANGE_REQUEST == 3
RESPONSE_ORIGIN == 32811

\* bitwise operators on non-negative integers
RECURSIVE BitXor(_, _)
BitXor(a, b) ==
  IF a = 0 THEN b
  ELSE IF b = 0 THEN a
  ELSE (((a % 2) + (b % 2)) % 2) + 2 * BitXor(a \div 2, b \div 2)

RECURSIVE BitAnd(_, _)
BitAnd(a, b) ==
  IF a = 0 \/ b = 0 THEN 0
  ELSE (a % 2) * (b % 2) + 2 * BitAnd(a \div 2, b \div 2)

\* x >> n on a non-negative 32-bit integer
ShiftRight(x, n) == x \div (2 ^ n)

\* Buffer: a sequence of bytes; offsets count from 0 as in the code
ReadUInt16BE(buffer, offset) == buffer[offset + 1] * 256 + buffer[offset + 2]
\* an unsigned 32-bit value read from a buffer is kept as its two 16-bit
\* halves <<high, low>>, so that values of 2^31 and more are represented
ReadUInt32BE(buffer, offset) ==
  <<ReadUInt16BE(buffer, offset), ReadUInt16BE(buffer, offset + 2)>>
\* the halves of a number below 2^31
Word32(v) == <<v \div 65536, v % 65536>>
\* word & mask, for a mask below 2^31
BitAnd32(word, mask) ==
  <<BitAnd(word[1], mask \div 65536), BitAnd(word[2], mask % 65536)>>
UInt8(v) == <<v % 256>>
UInt16BE(v) == <<(v \div 256) % 256, v % 256>>
UInt32BE(v) == UInt16BE(v \div 65536) \o UInt16BE(v % 65536)

\* buffer.subarray(start, end): both ends are clamped to the buffer
Subarray(buffer, start, end) ==
  LET e == IF end > Len(buffer) THEN Len(buffer) ELSE end
      b == IF start > Len(buffer) THEN Len(buffer) ELSE start
  IN IF e <= b THEN <<>> ELSE SubSeq(buffer, b + 1, e)

\* a map that keeps the value it already holds for a key
MapSet_KeepsFirst(map, key, value) ==
  [k \in DOMAIN map \cup {key} |-> IF k \in DOMAIN map THEN map[k] ELSE value]

\* Map.set(key, value)
MapSet(map, key, value) ==
  [k \in DOMAIN map \cup {key} |-> IF k = key THEN value ELSE map[k]]

\* a step that skips no padding
PaddedLength_NoPadding(n) == n

\* Math.ceil(n / 4) * 4
PaddedLength(n) == ((n + 3) \div 4) * 4

\* parseSTUNMessage: the attribute loop from offset on.  It returns the map
\* and the offsets at which it read an attribute header.
RECURSIVE ParseAttributes(_, _, _, _, _)
ParseAttributes(buffer, length, offset, attributes, readAt) ==
  IF ~(offset < Len(buffer) /\ offset < 20 + length)
  THEN [attributes |-> attributes, readAt |-> readAt]
  ELSE IF offset + 4 > Len(buffer)
  THEN [attributes |-> attributes, readAt |-> readAt]
  ELSE LET attrType == ReadUInt16BE(buffer, offset)
           attrLength == ReadUInt16BE(buffer, offset + 2)
           attrValue == Subarray(buffer, offset + 4, offset + 4 + attrLength)
       IN ParseAttributes(buffer, length, offset + 4 + PaddedLength(attrLength),
                          MapSet(attributes, attrType, attrValue),
                          Append(readAt, offset))

\* a parser that does not look at the magic cookie
ParseTrace_NoCookieCheck(buffer) ==
  IF Len(buffer) < 20 THEN [result |-> Null, readAt |-> <<>>]
  ELSE LET r == ParseAttributes(buffer, ReadUInt16BE(buffer, 2), 20, <<>>, <<>>)
       IN [result |-> Some([type |-> ReadUInt16BE(buffer, 0),
                            length |-> ReadUInt16BE(buffer, 2),
                            transactionId |-> Subarray(buffer, 8, 20),
                            attributes |-> r.attributes]),
           readAt |-> r.readAt]

\* parseSTUNMessage with what it read on the way: result is Null for the
\* code's null, readAt lists the offsets of the attribute headers it read
ParseTrace(buffer) ==
  IF Len(buffer) < 20 THEN [result |-> Null, readAt |-> <<>>]
  ELSE LET type == ReadUInt16BE(buffer, 0)
           length == ReadUInt16BE(buffer, 2)
           magicCookie == ReadUInt32BE(buffer, 4)
           transactionId == Subarray(buffer, 8, 20)
       IN IF magicCookie # Word32(STUN_MAGIC_COOKIE)
          THEN [result |-> Null, readAt |-> <<>>]
          ELSE LET r == ParseAttributes(buffer, length, 20, <<>>, <<>>)
               IN [result |-> Some([type |-> type, length |-> length,
                                    transactionId |-> transactionId,
                                    attributes |-> r.attributes]),
                   readAt |-> r.readAt]

parseSTUNMessage(buffer) == ParseTrace(buffer).result

\* the bytes of the magic cookie, most significant first
MagicBytes ==
  <<BitAnd(ShiftRight(STUN_MAGIC_COOKIE, 24), 255),
    BitAnd(ShiftRight(STUN_MAGIC_COOKIE, 16), 255),
    BitAnd(ShiftRight(STUN_MAGIC_COOKIE, 8), 255),
    BitAnd(STUN_MAGIC_COOKIE, 255)>>

\* an attribute builder that XORs the port with the low half of the cookie
buildXorMappedAddress_LowHalf(addr, port, transactionId) ==
  LET xorPort == BitXor(port, STUN_MAGIC_COOKIE % 65536)
      xorAddr == [i \in 1..4 |-> BitXor(addr[i], MagicBytes[i])]
      attrValue == UInt8(0) \o UInt8(1) \o UInt16BE(xorPort) \o UInt8(xorAddr[1])
                   \o UInt8(xorAddr[2]) \o UInt8(xorAddr[3]) \o UInt8(xorAddr[4])
  IN UInt16BE(XOR_MAPPED_ADDRESS) \o UInt16BE(8) \o attrValue

\* buildXorMappedAddress; addr is addr.split(".").map(Number)
buildXorMappedAddress(addr, port, transactionId) ==
  LET xorPort == BitXor(port, ShiftRight(STUN_MAGIC_COOKIE, 16))
      xorAddr == [i \in 1..4 |-> BitXor(addr[i], MagicBytes[i])]
      attrValue == UInt8(0) \o UInt8(1) \o UInt16BE(xorPort) \o UInt8(xorAddr[1])
                   \o UInt8(xorAddr[2]) \o UInt8(xorAddr[3]) \o UInt8(xorAddr[4])
  IN UInt16BE(XOR_MAPPED_ADDRESS) \o UInt16BE(8) \o attrValue

\* buildResponseOrigin
buildResponseOrigin(addr, port) ==
  LET attrValue == UInt8(0) \o UInt8(1) \o UInt16BE(port) \o UInt8(addr[1])
                   \o UInt8(addr[2]) \o UInt8(addr[3]) \o UInt8(addr[4])
  IN UInt16BE(RESPONSE_ORIGIN) \o UInt16BE(8) \o attrValue

\* an absent or empty address string, a port that is absent or 0
NoAddr == <<>>

\* buildSTUNResponse
buildSTUNResponse(transactionId, clientAddr, clientPort, responseAddr, responsePort) ==
  LET xorMappedAddr == buildXorMappedAddress(clientAddr, clientPort, transactionId)
      attributes ==
        IF responseAddr # NoAddr /\ responsePort # 0
        THEN xorMappedAddr \o buildResponseOrigin(responseAddr, responsePort)
        ELSE xorMappedAddr
      totalAttrLength == Len(attributes)
      header == UInt16BE(BINDING_RESPONSE) \o UInt16BE(totalAttrLength)
                \o UInt32BE(STUN_MAGIC_COOKIE) \o transactionId
  IN header \o attributes

\* a decoder that reads the two flags from each other's bit
parseChangeRequest_SwappedBits(attrValue) ==
  IF Len(attrValue) < 4 THEN [changeIP |-> FALSE, changePort |-> FALSE]
  ELSE LET flags == ReadUInt32BE(attrValue, 0)
       IN [changeIP |-> BitAnd32(flags, 2) # Word32(0),
           changePort |-> BitAnd32(flags, 4) # Word32(0)]

\* parseChangeRequest
parseChangeRequest(attrValue) ==
  IF Len(attrValue) < 4 THEN [changeIP |-> FALSE, changePort |-> FALSE]
  ELSE LET flags == ReadUInt32BE(attrValue, 0)
       IN [changeIP |-> BitAnd32(flags, 4) # Word32(0),
           changePort |-> BitAnd32(flags, 2) # Word32(0)]

----------------------------------------------------------------------------
(* Actions of the detection run *)

\* the STUN test server after main(): three listeners, nothing received
StunIdle ==
  /\ sockets = [p \in PORTS |-> "listening"]
  /\ delivered = <<>>
  /\ sent = <<>>

PureIdle == args = Null /\ ret = Null /\ called = FALSE

\* the custom server once everything is started: no shutdown has begun
ServerIdle ==
  /\ isShuttingDown = FALSE
  /\ signalHandlers = TRUE
  /\ stunsClosed = 0
  /\ httpServer = "listening"
  /\ fallbackTimer = "none"
  /\ exitCode = "none"
  /\ shutdownRuns = 0
  /\ triggers = <<>>

Init ==
  /\ PureIdle
  /\ now = 0
  /\ hasRTC \in BOOLEAN
  /\ isAdvancedAvailable = FALSE
  /\ availabilityPending = TRUE
  /\ result = IdleResult
  /\ runs = 0
  /\ method = "none"
  /\ runStartedAt = 0
  /\ pcs = <<>>
  /\ pcPhase = "none"
  /\ candidates = <<>>
  /\ resolved = FALSE
  /\ promise = "none"
  /\ detected = Null
  /\ ceilingFired = FALSE
  /\ timers = {}
  /\ fetchPending = FALSE
  /\ basicResult = Null
  /\ StunIdle
  /\ ServerIdle

\* a presentation that offers the trigger in every state
TriggerOffered_AlsoDetecting ==
  result.state \in {"IDLE", "DETECTING", "SUCCESS", "ERROR"}

\* NATDetector offers the trigger in every state but DETECTING
TriggerOffered == result.state \in {"IDLE", "SUCCESS", "ERROR"}

\* the mount effect: isAdvancedDetectionAvailable().then(setIsAdvancedAvailable).
\* Only the next runDetection call reads the flag, so the answer is taken to
\* arrive while no run is in flight.
AvailabilityAnswered ==
  /\ availabilityPending
  /\ TriggerOffered
  /\ availabilityPending' = FALSE
  /\ \E available \in BOOLEAN : isAdvancedAvailable' = available
  /\ UNCHANGED <<pureVars, stunVars, serverVars, now, hasRTC, pcs, result, runs, method, runStartedAt,
                 probeVars, advancedVars>>

\* runDetection, up to its first await that does not settle at once.  The
\* clock restarts at 0: the code reads it only for differences and delays.
\* Timers an earlier run left pending hold that run's closure; they read and
\* write nothing of this run and are dropped from the pending set.
RunDetection ==
  /\ TriggerOffered
  /\ runs < MaxRuns
  /\ runs' = runs + 1
  /\ now' = 0
  /\ runStartedAt' = now'
  /\ method' = IF isAdvancedAvailable THEN "advanced" ELSE "basic"
  /\ ceilingFired' = FALSE
  /\ IF ~hasRTC
     THEN \* detectNAT throws before it creates a connection
          /\ detected' = Some([ok |-> FALSE, error |-> MSG_BROWSER_UNSUPPORTED])
          /\ result' = IF isAdvancedAvailable
                       THEN AdvancedErrorResult(now', now', MSG_BROWSER_UNSUPPORTED)
                       ELSE BasicErrorResult(now', now', MSG_BROWSER_UNSUPPORTED)
          /\ timers' = {}
          /\ pcs' = <<>>
          /\ UNCHANGED <<pcPhase, candidates, resolved, promise>>
     ELSE /\ detected' = Null
          /\ result' = DetectingResult(now')
          /\ pcs' = CreateConnections(STUN_SERVERS)
          /\ pcPhase' = "new"
          /\ candidates' = <<>>
          /\ resolved' = FALSE
          /\ promise' = "pending"
          /\ timers' = {Timer("ceiling", now' + TOTAL_TIMEOUT, 0)}
  /\ UNCHANGED <<pureVars, stunVars, serverVars, hasRTC, isAdvancedAvailable, availabilityPending,
                 advancedVars>>

\* createOffer and setLocalDescription succeed: gathering starts
OfferSucceeds ==
  /\ pcPhase = "new"
  /\ pcPhase' = "gathering"
  /\ UNCHANGED <<pureVars, stunVars, serverVars, now, hasRTC, pcs, hookVars, candidates, resolved, promise,
                 detected, ceilingFired, timers, advancedVars>>

\* createOffer or setLocalDescription rejects: the catch of the start-up block
OfferFails ==
  /\ pcPhase = "new"
  /\ pcPhase' = "closed"
  /\ timers' = timers \ CeilingTimers
  /\ promise' = "rejected"
  /\ AfterDetectNAT(DetectNATOutcome([ok |-> FALSE, error |-> MSG_OfferRejected]))
  /\ UNCHANGED <<pureVars, stunVars, serverVars, now, hasRTC, pcs, isAdvancedAvailable, availabilityPending,
                 runs, method, runStartedAt, candidates, resolved, ceilingFired>>

\* pc.onicecandidate with a candidate drawn from inputs
OnIceCandidateFrom(inputs, max) ==
  /\ pcPhase = "gathering"
  /\ Len(candidates) < max
  /\ \E c \in inputs :
       LET cs == Append(candidates, c)
           hasHost == Count(cs, "host") > 0
           srflxCount == Count(cs, "srflx")
       IN /\ candidates' = cs
          /\ timers' = IF hasHost /\ srflxCount >= 1
                       THEN timers \cup {Timer("adaptive", now + WaitTime(srflxCount),
                                               Len(cs))}
                       ELSE timers
  /\ UNCHANGED <<pureVars, stunVars, serverVars, now, hasRTC, pcs, hookVars, pcPhase, resolved, promise,
                 detected, ceilingFired, advancedVars>>

OnIceCandidate == OnIceCandidateFrom(CandidateInputs, MaxCandidates)

\* pc.onicecandidate with the null candidate
OnIceCandidateNull ==
  /\ pcPhase = "gathering"
  /\ FinishGathering(timers)
  /\ UNCHANGED <<pureVars, stunVars, serverVars, now, hasRTC, pcs, isAdvancedAvailable, availabilityPending,
                 runs, method, runStartedAt, candidates, ceilingFired>>

\* pc.onicegatheringstatechange with iceGatheringState = "complete"
OnIceGatheringStateComplete ==
  /\ pcPhase = "gathering"
  /\ FinishGathering(timers)
  /\ UNCHANGED <<pureVars, stunVars, serverVars, now, hasRTC, pcs, isAdvancedAvailable, availabilityPending,
                 runs, method, runStartedAt, candidates, ceilingFired>>

Due(t) == t.deadline <= now

\* the ceiling timer fires
CeilingFires ==
  \E t \in timers :
    /\ t.kind = "ceiling" /\ Due(t)
    /\ timers' = timers \ {t}
    /\ IF ~resolved
       THEN /\ pcPhase' = "closed"
            /\ promise' = "rejected"
            /\ ceilingFired' = TRUE
            /\ AfterDetectNAT(DetectNATOutcome([ok |-> FALSE, error |-> MSG_DetectionTimeout]))
       ELSE UNCHANGED <<pcPhase, promise, ceilingFired, detected, result,
                        fetchPending, basicResult>>
    /\ UNCHANGED <<pureVars, stunVars, serverVars, now, hasRTC, pcs, isAdvancedAvailable, availabilityPending,
                   runs, method, runStartedAt, candidates, resolved>>

\* an adaptive-wait timer fires
AdaptiveFires ==
  \E t \in timers :
    /\ t.kind = "adaptive" /\ Due(t)
    /\ FinishGathering(timers \ {t})
    /\ UNCHANGED <<pureVars, stunVars, serverVars, now, hasRTC, pcs, isAdvancedAvailable, availabilityPending,
                   runs, method, runStartedAt, candidates, ceilingFired>>

\* time passes, while no timer is due, until the next pending timer is due
TimePasses ==
  /\ timers # {}
  /\ \A t \in timers : ~Due(t)
  /\ \E t \in timers :
       /\ \A u \in timers : t.deadline <= u.deadline
       /\ now' = t.deadline
  /\ UNCHANGED <<pureVars, stunVars, serverVars, hasRTC, pcs, hookVars, probeVars, advancedVars>>

\* time passes by one tick, while a timer is pending and none is due
Tick ==
  /\ timers # {}
  /\ \A t \in timers : ~Due(t)
  /\ now' = now + TickMs
  /\ UNCHANGED <<pureVars, stunVars, serverVars, hasRTC, pcs, hookVars, probeVars, advancedVars>>

\* the POST of detectNATAdvanced is answered, or fails
FetchOutcomes == {"ok", "notOk", "networkError"}

FetchSettles ==
  /\ fetchPending
  /\ fetchPending' = FALSE
  /\ basicResult' = Null
  /\ \E outcome \in FetchOutcomes :
       LET basic == Val(basicResult)
           req == [publicIP |-> basic.ipInfo.publicIP,
                   publicPort |-> basic.ipInfo.publicPort,
                   localIP |-> basic.ipInfo.localIP]
       IN result' =
            CASE outcome = "ok" ->
                   AdvancedSuccessResult(runStartedAt, now, basic, performAdvancedTests(req))
              [] outcome = "notOk" ->
                   AdvancedErrorResult(runStartedAt, now, MSG_ServerApiReturned500)
              [] outcome = "networkError" ->
                   AdvancedErrorResult(runStartedAt, now, MSG_FailedToFetch)
  /\ UNCHANGED <<pureVars, stunVars, serverVars, now, hasRTC, pcs, isAdvancedAvailable, availabilityPending,
                 runs, method, runStartedAt, probeVars>>

Next ==
  \/ AvailabilityAnswered
  \/ RunDetection
  \/ OfferSucceeds
  \/ OfferFails
  \/ OnIceCandidate
  \/ OnIceCandidateNull
  \/ OnIceGatheringStateComplete
  \/ CeilingFires
  \/ AdaptiveFires
  \/ TimePasses
  \/ FetchSettles

\* The detection run with candidates of every content; time is sampled at the
\* instants at which a timer comes due.
Spec == Init /\ [][Next]_vars

\* an adaptive-wait timer is due: AdaptiveFires is enabled
AdaptiveDue == \E t \in timers : t.kind = "adaptive" /\ Due(t)

\* WF_vars(AdaptiveFires), written with the enabling condition of the action
FairAdaptiveFires == []<>(~AdaptiveDue) \/ []<><<AdaptiveFires>>_vars

\* The same run with the scheduling the browser guarantees: time passes and a
\* timer that is due fires.  The fetch of detectNATAdvanced has no timeout and
\* no abort signal, so nothing guarantees that it ever settles.
SpecLive ==
  /\ Init /\ [][Next]_vars
  /\ WF_vars(TimePasses)
  /\ WF_vars(CeilingFires)
  /\ FairAdaptiveFires

\* the candidates of the timing specification: one host, one external mapping
TimingCandidateInputs ==
  {Candidate("host", PrivateLocal, PrivateLocal, NullStr, 50000),
   Candidate("srflx", PublicA, PublicA, NullStr, PortA)}

\* runAdvancedDetection, up to its first await that does not settle at once:
\* the functional setResult keeps every field of the previous result but the
\* state, then detectNATAdvanced takes its own startedAt and calls detectNAT.
\* No component calls it; a caller of the hook may, and is taken to do so
\* while no run is in flight.
RunAdvancedDetection ==
  /\ TriggerOffered
  /\ runs < MaxRuns
  /\ runs' = runs + 1
  /\ now' = 0
  /\ runStartedAt' = now'
  /\ method' = "advanced"
  /\ ceilingFired' = FALSE
  /\ IF ~hasRTC
     THEN \* detectNAT throws at once; detectNATAdvanced returns its ERROR result
          /\ detected' = Some([ok |-> FALSE, error |-> MSG_BROWSER_UNSUPPORTED])
          /\ result' = AdvancedErrorResult(now', now', MSG_BROWSER_UNSUPPORTED)
          /\ timers' = {}
          /\ pcs' = <<>>
          /\ UNCHANGED <<pcPhase, candidates, resolved, promise>>
     ELSE /\ detected' = Null
          /\ result' = [result EXCEPT !.state = "DETECTING"]
          /\ pcs' = CreateConnections(STUN_SERVERS)
          /\ pcPhase' = "new"
          /\ candidates' = <<>>
          /\ resolved' = FALSE
          /\ promise' = "pending"
          /\ timers' = {Timer("ceiling", now' + TOTAL_TIMEOUT, 0)}
  /\ UNCHANGED <<pureVars, stunVars, serverVars, hasRTC, isAdvancedAvailable, availabilityPending,
                 advancedVars>>

OnIceCandidateHook == OnIceCandidateFrom(TimingCandidateInputs, MaxHookCandidates)

NextHook ==
  \/ AvailabilityAnswered
  \/ RunDetection
  \/ RunAdvancedDetection
  \/ OfferSucceeds
  \/ OfferFails
  \/ OnIceCandidateHook
  \/ OnIceCandidateNull
  \/ OnIceGatheringStateComplete
  \/ CeilingFires
  \/ AdaptiveFires
  \/ TimePasses
  \/ FetchSettles

\* The hook with both of the callbacks it returns, over short probe runs
SpecHook == Init /\ [][NextHook]_vars

OnIceCandidateTiming == OnIceCandidateFrom(TimingCandidateInputs, MaxTimingCandidates)

NextTiming ==
  \/ AvailabilityAnswered
  \/ RunDetection
  \/ OfferSucceeds
  \/ OfferFails
  \/ OnIceCandidateTiming
  \/ OnIceCandidateNull
  \/ OnIceGatheringStateComplete
  \/ CeilingFires
  \/ AdaptiveFires
  \/ Tick
  \/ FetchSettles

\* The detection run with time sampled every TickMs
SpecTiming == Init /\ [][NextTiming]_vars

----------------------------------------------------------------------------
(* classifyNAT applied to drawn inputs *)

PipelineIdle ==
  /\ now = 0 /\ hasRTC = TRUE /\ isAdvancedAvailable = FALSE
  /\ availabilityPending = FALSE /\ result = IdleResult /\ runs = 0
  /\ method = "none" /\ runStartedAt = 0 /\ pcs = <<>> /\ pcPhase = "none" /\ candidates = <<>>
  /\ resolved = FALSE /\ promise = "none" /\ detected = Null
  /\ ceilingFired = FALSE /\ timers = {} /\ fetchPending = FALSE
  /\ basicResult = Null

pipelineVars == <<now, hasRTC, pcs, hookVars, probeVars, advancedVars>>

InitClassify ==
  /\ args \in [ipInfo : IpInfoInputs, portMapping : PortMappingInputs]
  /\ ret = Null
  /\ called = FALSE
  /\ PipelineIdle
  /\ StunIdle
  /\ ServerIdle

Classify ==
  /\ ~called
  /\ called' = TRUE
  /\ ret' = [natType |-> classifyNAT(args.ipInfo, args.portMapping),
             branch |-> classifyBranch(args.ipInfo, args.portMapping)]
  /\ UNCHANGED <<args, pipelineVars, stunVars, serverVars>>

NextClassify == Classify

SpecClassify == InitClassify /\ [][NextClassify]_vars

----------------------------------------------------------------------------
(* The STUN codec applied to drawn inputs *)

\* transaction IDs
TxA == <<1, 2, 3, 4, 5, 6, 7, 8, 9, 10, 11, 12>>
TxB == <<255, 255, 255, 255, 255, 255, 255, 255, 255, 255, 255, 255>>
TransactionIdInputs == {TxA, TxB}

\* a magic cookie and three values that differ from it in one byte or in all
CookieInputs ==
  {STUN_MAGIC_COOKIE, STUN_MAGIC_COOKIE + 1, STUN_MAGIC_COOKIE - 16777216, 0}

\* the 20-byte header
Header(type, length, cookie, transactionId) ==
  UInt16BE(type) \o UInt16BE(length) \o UInt32BE(cookie) \o transactionId

\* an attribute that declares length declared and is followed by bytes
Attr(type, declared, bytes) == UInt16BE(type) \o UInt16BE(declared) \o bytes

\* CHANGE-REQUEST with the given flags
ChangeRequestAttr(flags) == Attr(CHANGE_REQUEST, 4, UInt32BE(flags))

\* the bytes that may follow the header
BodyInputs ==
  {<<>>,
   ChangeRequestAttr(0), ChangeRequestAttr(2), ChangeRequestAttr(4), ChangeRequestAttr(6),
   \* declared length 8, four bytes present
   Attr(CHANGE_REQUEST, 8, <<0, 0, 0, 2>>),
   \* declared length 4, two bytes present
   Attr(CHANGE_REQUEST, 4, <<0, 2>>),
   \* two bytes of an attribute header
   <<0, 3>>,
   \* a 5-byte value padded to 8, then a CHANGE-REQUEST
   Attr(32802, 5, <<104, 101, 108, 108, 111, 0, 0, 0>>) \o ChangeRequestAttr(2),
   \* the same attribute type twice
   ChangeRequestAttr(2) \o ChangeRequestAttr(4)}

\* well-framed buffers, buffers whose length field is 0, and short buffers
BufferInputs ==
  {Header(t, Len(b), c, x) \o b :
     t \in {BINDING_REQUEST, BINDING_RESPONSE}, c \in CookieInputs,
     x \in TransactionIdInputs, b \in BodyInputs}
  \cup {Header(BINDING_REQUEST, 0, STUN_MAGIC_COOKIE, TxA) \o b : b \in BodyInputs}
  \cup {SubSeq(Header(BINDING_REQUEST, 0, STUN_MAGIC_COOKIE, TxA), 1, n) : n \in {0, 1, 8, 19}}

\* addresses as addr.split(".").map(Number)
AddrInputs == {<<0, 0, 0, 0>>, <<255, 255, 255, 255>>, <<203, 0, 113, 10>>, <<33, 18, 164, 66>>}
PortInputs == {0, 1, 8466, 40000, 65535}

BuildInputs ==
  [op : {"build"}, transactionId : TransactionIdInputs, clientAddr : AddrInputs,
   clientPort : PortInputs, responseAddr : {NoAddr, <<0, 0, 0, 0>>},
   responsePort : {0, PORTS_PRIMARY, PORTS_SECONDARY}]

\* attributes of a well-formed message: two types, values of 0 to 8 bytes
AttributeInputs ==
  {[type |-> t, value |-> [i \in 1..n |-> 16 * n + i]] :
     t \in {CHANGE_REQUEST, 32802}, n \in {0, 1, 3, 4, 5, 8}}

\* the attribute on the wire: type, declared length, value, and padding up to
\* the next multiple of 4
EncodeAttr(a, padByte) ==
  Attr(a.type, Len(a.value),
       a.value \o [i \in 1..((4 - (Len(a.value) % 4)) % 4) |-> padByte])

RECURSIVE EncodeAttrs(_, _)
EncodeAttrs(attrs, padByte) ==
  IF attrs = <<>> THEN <<>>
  ELSE EncodeAttr(Head(attrs), padByte) \o EncodeAttrs(Tail(attrs), padByte)

\* a Binding Request that carries attrs
WellFormedMessage(attrs, padByte) ==
  LET body == EncodeAttrs(attrs, padByte)
  IN Header(BINDING_REQUEST, Len(body), STUN_MAGIC_COOKIE, TxA) \o body

WellFormedInputs ==
  {[op |-> "parseWellFormed", attrs |-> as, padByte |-> b] :
     as \in SeqsUpTo(AttributeInputs, MaxAttrs), b \in {0, 255}}

InitCodec ==
  /\ args \in {[op |-> "parse", buffer |-> b] : b \in BufferInputs} \cup BuildInputs
              \cup WellFormedInputs
  /\ ret = Null
  /\ called = FALSE
  /\ PipelineIdle
  /\ StunIdle
  /\ ServerIdle

\* parseSTUNMessage(buffer)
Parse ==
  /\ ~called
  /\ args.op = "parse"
  /\ called' = TRUE
  /\ ret' = ParseTrace(args.buffer)
  /\ UNCHANGED <<args, pipelineVars, stunVars, serverVars>>

\* parseSTUNMessage(buildSTUNResponse(...))
BuildAndParse ==
  /\ ~called
  /\ args.op = "build"
  /\ called' = TRUE
  /\ LET response == buildSTUNResponse(args.transactionId, args.clientAddr,
                                       args.clientPort, args.responseAddr,
                                       args.responsePort)
     IN ret' = [response |-> response, parsed |-> parseSTUNMessage(response)]
  /\ UNCHANGED <<args, pipelineVars, stunVars, serverVars>>

\* parseSTUNMessage(buffer) on a well-formed message
ParseWellFormed ==
  /\ ~called
  /\ args.op = "parseWellFormed"
  /\ called' = TRUE
  /\ ret' = ParseTrace(WellFormedMessage(args.attrs, args.padByte))
  /\ UNCHANGED <<args, pipelineVars, stunVars, serverVars>>

NextCodec == Parse \/ BuildAndParse \/ ParseWellFormed

SpecCodec == InitCodec /\ [][NextCodec]_vars

----------------------------------------------------------------------------
(* The STUN test server: its listeners *)

\* socket.address().address of a socket bound without an address: "0.0.0.0"
LocalAddr == <<0, 0, 0, 0>>

\* a listener that drops the requests it cannot honor
HandleMessage_DropsUnhonored(port, msg, rinfo) ==
  LET stunMsg == parseSTUNMessage(msg) IN
  IF IsNull(stunMsg) THEN Null
  ELSE IF Val(stunMsg).type # BINDING_REQUEST THEN Null
  ELSE IF CHANGE_REQUEST \in DOMAIN Val(stunMsg).attributes
          /\ parseChangeRequest(Val(stunMsg).attributes[CHANGE_REQUEST]).changePort
          /\ port # PORTS_PRIMARY
  THEN Null
  ELSE Some([socket |-> port, responsePort |-> port,
             toAddress |-> rinfo.address, toPort |-> rinfo.port,
             payload |-> buildSTUNResponse(Val(stunMsg).transactionId, rinfo.address,
                                           rinfo.port, LocalAddr, port),
             withCallback |-> TRUE])

\* a listener that looks at the change-port flag only
HandleMessage_IgnoresChangeIP(port, msg, rinfo) ==
  LET stunMsg == parseSTUNMessage(msg) IN
  IF IsNull(stunMsg) THEN Null
  ELSE IF Val(stunMsg).type # BINDING_REQUEST THEN Null
  ELSE
    LET attributes == Val(stunMsg).attributes
        flags == IF CHANGE_REQUEST \in DOMAIN attributes
                 THEN parseChangeRequest(attributes[CHANGE_REQUEST])
                 ELSE [changeIP |-> FALSE, changePort |-> FALSE]
        responsePort ==
          IF flags.changePort /\ port = PORTS_PRIMARY THEN PORTS_SECONDARY ELSE port
    IN Some([socket |-> port, responsePort |-> responsePort,
             toAddress |-> rinfo.address, toPort |-> rinfo.port,
             payload |-> buildSTUNResponse(Val(stunMsg).transactionId, rinfo.address,
                                           rinfo.port, LocalAddr, responsePort),
             withCallback |-> (responsePort = port)])

\* a listener that answers every message type
HandleMessage_NoTypeCheck(port, msg, rinfo) ==
  LET stunMsg == parseSTUNMessage(msg) IN
  IF IsNull(stunMsg) THEN Null
  ELSE Some([socket |-> port, responsePort |-> port,
             toAddress |-> rinfo.address, toPort |-> rinfo.port,
             payload |-> buildSTUNResponse(Val(stunMsg).transactionId, rinfo.address,
                                           rinfo.port, LocalAddr, port),
             withCallback |-> TRUE])

\* a listener that sends a change-port response through the socket of the
\* port it announces
HandleMessage_ViaOtherSocket(port, msg, rinfo) ==
  LET stunMsg == parseSTUNMessage(msg) IN
  IF IsNull(stunMsg) THEN Null
  ELSE IF Val(stunMsg).type # BINDING_REQUEST THEN Null
  ELSE
    LET attributes == Val(stunMsg).attributes
        flags == IF CHANGE_REQUEST \in DOMAIN attributes
                 THEN parseChangeRequest(attributes[CHANGE_REQUEST])
                 ELSE [changeIP |-> FALSE, changePort |-> FALSE]
        responsePort ==
          IF flags.changePort /\ ~flags.changeIP /\ port = PORTS_PRIMARY
          THEN PORTS_SECONDARY
          ELSE port
        response == buildSTUNResponse(Val(stunMsg).transactionId, rinfo.address,
                                      rinfo.port, LocalAddr, responsePort)
    IN Some([socket |-> responsePort, responsePort |-> responsePort,
             toAddress |-> rinfo.address, toPort |-> rinfo.port,
             payload |-> response,
             withCallback |-> (responsePort = port)])

\* socket.on("message") of the listener created for port: Null when it
\* returns without sending, else the one socket.send call it makes: the
\* socket it calls send on, the port it put into RESPONSE-ORIGIN, the
\* destination, the payload, and whether it passed a callback
HandleMessage(port, msg, rinfo) ==
  LET stunMsg == parseSTUNMessage(msg) IN
  IF IsNull(stunMsg) THEN Null
  ELSE IF Val(stunMsg).type # BINDING_REQUEST THEN Null
  ELSE
    LET attributes == Val(stunMsg).attributes
        flags == IF CHANGE_REQUEST \in DOMAIN attributes
                 THEN parseChangeRequest(attributes[CHANGE_REQUEST])
                 ELSE [changeIP |-> FALSE, changePort |-> FALSE]
        responsePort ==
          IF flags.changePort /\ ~flags.changeIP /\ port = PORTS_PRIMARY
          THEN PORTS_SECONDARY
          ELSE port
        response == buildSTUNResponse(Val(stunMsg).transactionId, rinfo.address,
                                      rinfo.port, LocalAddr, responsePort)
    IN Some([socket |-> port, responsePort |-> responsePort,
             toAddress |-> rinfo.address, toPort |-> rinfo.port,
             payload |-> response,
             withCallback |-> (responsePort = port)])

\* the datagrams a listener may receive
DatagramInputs ==
  {Header(BINDING_REQUEST, Len(b), STUN_MAGIC_COOKIE, TxA) \o b :
     b \in {<<>>, ChangeRequestAttr(2), ChangeRequestAttr(4), ChangeRequestAttr(6),
            Attr(CHANGE_REQUEST, 4, <<0, 2>>)}}
  \cup {Header(BINDING_REQUEST, 0, STUN_MAGIC_COOKIE + 1, TxA),
        Header(BINDING_RESPONSE, 0, STUN_MAGIC_COOKIE, TxB),
        <<0, 1, 0, 0>>}

\* the senders of those datagrams
ClientInputs ==
  {[address |-> <<203, 0, 113, 10>>, port |-> 40000],
   [address |-> <<33, 18, 164, 66>>, port |-> 8466]}

\* a datagram arrives at the listener of port and its handler runs; the send
\* it makes succeeds or fails.  A failed send that was given a callback is
\* logged by the callback; one that was given none is emitted as the
\* socket's "error" event, whose handler closes the socket.
OnMessage(port) ==
  /\ sockets[port] = "listening"
  /\ Len(delivered) < MaxDatagrams
  /\ \E msg \in DatagramInputs, rinfo \in ClientInputs :
       LET send == HandleMessage(port, msg, rinfo) IN
       /\ delivered' = Append(delivered, [listener |-> port, msg |-> msg, rinfo |-> rinfo])
       /\ IF IsNull(send)
          THEN UNCHANGED <<sent, sockets>>
          ELSE \E failed \in BOOLEAN :
                 /\ sent' = Append(sent, [request |-> Len(delivered) + 1,
                                          socket |-> Val(send).socket,
                                          fromPort |-> Val(send).socket,
                                          responsePort |-> Val(send).responsePort,
                                          toAddress |-> Val(send).toAddress,
                                          toPort |-> Val(send).toPort,
                                          payload |-> Val(send).payload,
                                          withCallback |-> Val(send).withCallback,
                                          failed |-> failed])
                 /\ sockets' = IF failed /\ ~Val(send).withCallback
                               THEN [sockets EXCEPT ![Val(send).socket] = "closed"]
                               ELSE sockets
  /\ UNCHANGED <<pureVars, pipelineVars, serverVars>>

OnMessagePrimary == OnMessage(PORTS_PRIMARY)
OnMessageSecondary == OnMessage(PORTS_SECONDARY)
OnMessageTertiary == OnMessage(PORTS_TERTIARY)

\* socket.on("error") of the listener created for port
OnSocketError(port) ==
  /\ sockets[port] = "listening"
  /\ sockets' = [sockets EXCEPT ![port] = "closed"]
  /\ UNCHANGED <<pureVars, pipelineVars, serverVars, delivered, sent>>

OnSocketErrorAny == \E port \in PORTS : OnSocketError(port)

\* process.on("SIGINT"): every socket is closed and the process exits
OnSigint ==
  /\ \E port \in PORTS : sockets[port] # "exited"
  /\ sockets' = [port \in PORTS |-> "exited"]
  /\ UNCHANGED <<pureVars, pipelineVars, serverVars, delivered, sent>>

NextStun ==
  \/ OnMessagePrimary
  \/ OnMessageSecondary
  \/ OnMessageTertiary
  \/ OnSocketErrorAny
  \/ OnSigint

InitStun == PureIdle /\ PipelineIdle /\ StunIdle /\ ServerIdle

SpecStun == InitStun /\ [][NextStun]_vars

----------------------------------------------------------------------------
(* The custom server: one process with the HTTP server and the listeners *)

\* stunServers: the listeners whose creation did not throw
StartedStuns == {p \in PORTS : sockets[p] # "absent"}

\* closeHTTPServer: close a listening server and wait for its callback,
\* else exit at once
closeHTTPServer ==
  IF httpServer = "listening"
  THEN httpServer' = "closing" /\ exitCode' = exitCode
  ELSE httpServer' = httpServer /\ exitCode' = "0"

\* a shutdown that does not look at isShuttingDown
shutdown_Unguarded ==
  LET alreadyClosed == {p \in StartedStuns : sockets[p] = "closed"} IN
  /\ isShuttingDown' = TRUE
  /\ signalHandlers' = FALSE
  /\ shutdownRuns' = shutdownRuns + 1
  /\ sockets' = [p \in PORTS |-> IF sockets[p] = "listening" THEN "closing" ELSE sockets[p]]
  /\ stunsClosed' = Cardinality(alreadyClosed)
  /\ IF alreadyClosed = StartedStuns THEN closeHTTPServer
     ELSE UNCHANGED <<httpServer, exitCode>>
  /\ fallbackTimer' = IF exitCode' = "none" THEN "pending" ELSE fallbackTimer

\* shutdown(signal): the guard, then the closing sequence.  server.close(cb)
\* on a running socket leaves its callback pending; on a socket that is
\* already closed it throws and the catch block counts the socket.  The
\* timer is set unless closeHTTPServer ended the process.
shutdown ==
  IF isShuttingDown
  THEN UNCHANGED <<sockets, isShuttingDown, signalHandlers, stunsClosed, httpServer,
                   fallbackTimer, exitCode, shutdownRuns>>
  ELSE LET alreadyClosed == {p \in StartedStuns : sockets[p] = "closed"} IN
       /\ isShuttingDown' = TRUE
       /\ signalHandlers' = FALSE
       /\ shutdownRuns' = shutdownRuns + 1
       /\ sockets' = [p \in PORTS |->
                        IF sockets[p] = "listening" THEN "closing" ELSE sockets[p]]
       /\ stunsClosed' = Cardinality(alreadyClosed)
       /\ IF alreadyClosed = StartedStuns THEN closeHTTPServer
          ELSE UNCHANGED <<httpServer, exitCode>>
       /\ fallbackTimer' = IF exitCode' = "none" THEN "pending" ELSE fallbackTimer

Running == exitCode = "none"

\* SIGTERM or SIGINT arrives.  While the listeners of process.on are
\* registered shutdown runs; once shutdown removed them the signal has its
\* default effect and ends the process.
OnSignal ==
  /\ Running
  /\ Len(triggers) < MaxTriggers
  /\ \E signal \in {"SIGTERM", "SIGINT"} : triggers' = Append(triggers, signal)
  /\ IF signalHandlers THEN shutdown
     ELSE /\ exitCode' = "signal"
          /\ UNCHANGED <<sockets, isShuttingDown, signalHandlers, stunsClosed, httpServer,
                         fallbackTimer, shutdownRuns>>
  /\ UNCHANGED <<pureVars, pipelineVars, delivered, sent>>

\* an uncaught exception or unhandled rejection: both registered listeners
\* run, the first calls shutdown unless isShuttingDown, the second calls it
\* and finds isShuttingDown set
OnUncaughtError ==
  /\ Running
  /\ Len(triggers) < MaxTriggers
  /\ \E kind \in {"uncaughtException", "unhandledRejection"} :
       triggers' = Append(triggers, kind)
  /\ shutdown
  /\ UNCHANGED <<pureVars, pipelineVars, delivered, sent>>

\* the callback of server.close for the listener of port
OnStunClosed(port) ==
  /\ Running
  /\ sockets[port] = "closing"
  /\ sockets' = [sockets EXCEPT ![port] = "closed"]
  /\ stunsClosed' = stunsClosed + 1
  /\ IF stunsClosed' = Cardinality(StartedStuns) THEN closeHTTPServer
     ELSE UNCHANGED <<httpServer, exitCode>>
  /\ UNCHANGED <<pureVars, pipelineVars, delivered, sent, isShuttingDown, signalHandlers,
                 fallbackTimer, shutdownRuns, triggers>>

OnStunClosedAny == \E port \in PORTS : OnStunClosed(port)

\* the callback of httpServer.close
OnHttpClosed ==
  /\ Running
  /\ httpServer = "closing"
  /\ httpServer' = "closed"
  /\ exitCode' = "0"
  /\ UNCHANGED <<pureVars, pipelineVars, stunVars, isShuttingDown, signalHandlers,
                 stunsClosed, fallbackTimer, shutdownRuns, triggers>>

\* the fallback timer of shutdown, 3000 ms after it was set
FallbackFires ==
  /\ Running
  /\ fallbackTimer = "pending"
  /\ fallbackTimer' = "fired"
  /\ IF httpServer # "listening" THEN closeHTTPServer
     ELSE UNCHANGED <<httpServer, exitCode>>
  /\ UNCHANGED <<pureVars, pipelineVars, stunVars, isShuttingDown, signalHandlers,
                 stunsClosed, shutdownRuns, triggers>>

\* the callback of httpServer.listen
OnHttpListening ==
  /\ Running
  /\ httpServer = "starting"
  /\ httpServer' = "listening"
  /\ UNCHANGED <<pureVars, pipelineVars, stunVars, isShuttingDown, signalHandlers,
                 stunsClosed, fallbackTimer, exitCode, shutdownRuns, triggers>>

\* socket.on("error") of a listener that is still running
OnStunError ==
  /\ Running
  /\ OnSocketErrorAny
  /\ UNCHANGED serverVars

NextServer ==
  \/ OnSignal
  \/ OnUncaughtError
  \/ OnStunClosedAny
  \/ OnHttpClosed
  \/ FallbackFires
  \/ OnHttpListening
  \/ OnStunError

\* after app.prepare(): listen was called, at least one listener was created
InitServer ==
  /\ PureIdle /\ PipelineIdle
  /\ delivered = <<>> /\ sent = <<>>
  /\ sockets \in [PORTS -> {"listening", "absent"}]
  /\ \E p \in PORTS : sockets[p] = "listening"
  /\ isShuttingDown = FALSE
  /\ signalHandlers = TRUE
  /\ stunsClosed = 0
  /\ httpServer = "starting"
  /\ fallbackTimer = "none"
  /\ exitCode = "none"
  /\ shutdownRuns = 0
  /\ triggers = <<>>

SpecServer == InitServer /\ [][NextServer]_vars

\* The custom server with the scheduling Node guarantees: a timer that was
\* set fires, and the callbacks of listen and of httpServer.close are called.
\* Nothing is assumed about the close callbacks of the listeners.
SpecServerLive ==
  /\ InitServer /\ [][NextServer]_vars
  /\ WF_vars(FallbackFires)
  /\ WF_vars(OnHttpClosed)
  /\ WF_vars(OnHttpListening)

----------------------------------------------------------------------------
(* The POST handler of the advanced-detection endpoint *)

\* "Missing required fields: publicIP and publicPort"
MSG_MissingRequiredFields == <<"Missing required fields: publicIP and publicPort">>

\* the message of the error request.json() or the property read throws
MSG_BodyError == <<"Unexpected token / Cannot read properties of null">>

\* a handler that validates the body after the tests ran
POST_ValidatesLate(body) ==
  IF body.kind \in {"invalid", "null"}
  THEN [status |-> 500, success |-> FALSE, error |-> Some(MSG_BodyError),
        ranTests |-> FALSE, natType |-> NoValue]
  ELSE IF Falsy(body.publicIP) \/ body.publicPort \in {NoPort, 0}
  THEN [status |-> 400, success |-> FALSE, error |-> Some(MSG_MissingRequiredFields),
        ranTests |-> TRUE, natType |-> NoValue]
  ELSE [status |-> 200, success |-> TRUE, error |-> Null, ranTests |-> TRUE,
        natType |-> performAdvancedTests(body).natType]

\* POST: the response it returns for a request body, and whether
\* performAdvancedTests ran.  A body is what request.json() gives: it throws
\* (kind "invalid"), or gives null, a number, or an object whose publicIP is
\* absent (NullStr), "" or an address and whose publicPort is absent (NoPort),
\* 0 or a port.
POST(body) ==
  IF body.kind \in {"invalid", "null"}
  THEN \* request.json() rejects, or body.publicIP throws: the catch block
       [status |-> 500, success |-> FALSE, error |-> Some(MSG_BodyError),
        ranTests |-> FALSE, natType |-> NoValue]
  ELSE IF Falsy(body.publicIP) \/ body.publicPort \in {NoPort, 0}
  THEN [status |-> 400, success |-> FALSE, error |-> Some(MSG_MissingRequiredFields),
        ranTests |-> FALSE, natType |-> NoValue]
  ELSE [status |-> 200, success |-> TRUE, error |-> Null, ranTests |-> TRUE,
        natType |-> performAdvancedTests(body).natType]

----------------------------------------------------------------------------
(* Functions applied to drawn inputs *)

ResolveInputs == [op : {"resolve"}, t2 : BOOLEAN, t3 : BOOLEAN, t4 : BOOLEAN]

\* request bodies
BodyKindInputs ==
  {[op |-> "post", body |-> [kind |-> k, publicIP |-> NullStr, publicPort |-> NoPort]] :
     k \in {"invalid", "null", "number"}}
  \cup {[op |-> "post", body |-> [kind |-> "object", publicIP |-> ip, publicPort |-> port]] :
          ip \in {NullStr, EmptyStr, PublicA}, port \in {NoPort, 0, PortA}}

\* CHANGE-REQUEST values: short, exact, and longer than the flags word
ChangeRequestInputs ==
  {[op |-> "changeRequest", attrValue |-> v] :
     v \in {<<>>, <<0, 0, 6>>}
          \cup {<<a, 0, 0, b>> : a \in {0, 128, 255}, b \in {0, 1, 2, 3, 4, 5, 6, 7, 8, 249, 251, 253, 255}}
          \cup {<<0, 0, 0, 2, 0, 0, 0, 4>>}}

\* candidates for the analyzer: those of the probe and two more invalid ones
AnalyzeCandidateInputs ==
  CandidateInputs
  \cup {Candidate("srflx", PublicA, EmptyStr, NullStr, PortB),
        Candidate("srflx", PublicA, EmptyStr, PublicA, PortB)}

AnalyzeInputs ==
  {[op |-> "analyze", candidates |-> cs] : cs \in SeqsUpTo(AnalyzeCandidateInputs, MaxCandidates)}

\* address strings around the edges of the four ranges, a host name, and
\* strings that are not four numbers
AddressInputs ==
  {[op |-> "address", ip |-> ip] :
     ip \in {IPv4(a, b, 1, 1) : a \in {9, 10, 11, 100, 101, 172, 173, 192, 193},
                                b \in {0, 15, 16, 31, 32, 63, 64, 127, 128, 167, 168, 169, 255}}
           \cup {MDNSName, EmptyStr,
                 [kind |-> "str", parts |-> <<10, 0, 1>>, local |-> FALSE],
                 [kind |-> "str", parts |-> <<10, NaN, 0, 1>>, local |-> FALSE]}}

\* candidates for extractIPInfo: hosts with a private, a public and an
\* obfuscated address, and reflexive ones inside and just outside 100.64/10
IPInfoCandidateInputs ==
  {Candidate("host", h, h, NullStr, 50000) :
     h \in {PrivateLocal, PublicLocal, MDNSName, IPv4(172, 32, 0, 9)}}
  \cup {Candidate("host", MDNSName, IPv4(10, 0, 0, 9), NullStr, 50000)}
  \cup {Candidate("srflx", a, a, NullStr, PortA) :
          a \in {PublicA, CGNATPublic, IPv4(100, 128, 0, 1), IPv4(100, 127, 255, 1)}}
  \cup {Candidate("srflx", EmptyStr, EmptyStr, NullStr, PortA)}

IPInfoInputs ==
  {[op |-> "ipInfo", candidates |-> cs] : cs \in SeqsUpTo(IPInfoCandidateInputs, MaxMappings)}

\* measurement records that are analysed more than once, each with another
\* record that is analysed in between
ReanalyzeCandidateInputs ==
  {Candidate("host", PrivateLocal, PrivateLocal, NullStr, 50000),
   Candidate("srflx", PublicA, PublicA, NullStr, PortA),
   Candidate("srflx", PublicA, PublicA, NullStr, PortB),
   Candidate("srflx", PublicA, PublicA, NullStr, 0)}

OtherRecordInputs ==
  {<<>>,
   <<Candidate("host", PublicLocal, PublicLocal, NullStr, 50000)>>,
   <<Candidate("host", PrivateLocal, PrivateLocal, NullStr, 50000),
     Candidate("srflx", CGNATPublic, CGNATPublic, NullStr, PortA),
     Candidate("srflx", PublicA, PublicA, NullStr, PortB)>>}

ReanalyzeInputs ==
  {[op |-> "reanalyze", candidates |-> cs, other |-> o] :
     cs \in SeqsUpTo(ReanalyzeCandidateInputs, MaxCandidates), o \in OtherRecordInputs}

InitFunctions ==
  /\ args \in ResolveInputs \cup BodyKindInputs \cup ChangeRequestInputs \cup AnalyzeInputs
              \cup AddressInputs \cup IPInfoInputs \cup ReanalyzeInputs
  /\ ret = Null
  /\ called = FALSE
  /\ PipelineIdle
  /\ StunIdle
  /\ ServerIdle

\* performAdvancedTests: the resolution applied to three test outcomes
Resolve ==
  /\ ~called /\ args.op = "resolve"
  /\ called' = TRUE
  /\ ret' = ResolveTests([passed |-> args.t2], [passed |-> args.t3], [passed |-> args.t4])
  /\ UNCHANGED <<args, pipelineVars, stunVars, serverVars>>

\* POST(request)
Post ==
  /\ ~called /\ args.op = "post"
  /\ called' = TRUE
  /\ ret' = POST(args.body)
  /\ UNCHANGED <<args, pipelineVars, stunVars, serverVars>>

\* parseChangeRequest(attrValue)
ParseChangeRequest ==
  /\ ~called /\ args.op = "changeRequest"
  /\ called' = TRUE
  /\ ret' = parseChangeRequest(args.attrValue)
  /\ UNCHANGED <<args, pipelineVars, stunVars, serverVars>>

\* analyzePortMapping(candidates)
Analyze ==
  /\ ~called /\ args.op = "analyze"
  /\ called' = TRUE
  /\ ret' = analyzePortMapping(args.candidates)
  /\ UNCHANGED <<args, pipelineVars, stunVars, serverVars>>

\* isPrivateIP(ip) and isCGNATIP(ip)
ClassifyAddress ==
  /\ ~called /\ args.op = "address"
  /\ called' = TRUE
  /\ ret' = [isPrivate |-> isPrivateIP(args.ip), isCGNAT |-> isCGNATIP(args.ip)]
  /\ UNCHANGED <<args, pipelineVars, stunVars, serverVars>>

\* extractIPInfo(candidates)
ExtractIPInfo ==
  /\ ~called /\ args.op = "ipInfo"
  /\ called' = TRUE
  /\ ret' = extractIPInfo(args.candidates)
  /\ UNCHANGED <<args, pipelineVars, stunVars, serverVars>>

\* an analysis that consumes the first entry of the record it is given
AnalyzeRecord_ConsumesEntry ==
  /\ args.op = "reanalyze"
  /\ Len(ret) < MaxAnalyses
  /\ called' = TRUE
  /\ ret' = Append(ret, [on |-> "record", outcome |-> GatheringOutcome(args.candidates)])
  /\ args' = [args EXCEPT !.candidates = IF @ = <<>> THEN @ ELSE Tail(@)]
  /\ UNCHANGED <<pipelineVars, stunVars, serverVars>>

\* finishGathering's analysis (extractIPInfo, analyzePortMapping, confidence)
\* applied to the record once more; ret collects the outcomes in order.  The
\* analysis builds new arrays with filter and map and writes nothing else.
AnalyzeRecord ==
  /\ args.op = "reanalyze"
  /\ Len(ret) < MaxAnalyses
  /\ called' = TRUE
  /\ ret' = Append(ret, [on |-> "record", outcome |-> GatheringOutcome(args.candidates)])
  /\ UNCHANGED <<args, pipelineVars, stunVars, serverVars>>

\* the same analysis applied to the other record
AnalyzeOther ==
  /\ args.op = "reanalyze"
  /\ Len(ret) < MaxAnalyses
  /\ called' = TRUE
  /\ ret' = Append(ret, [on |-> "other", outcome |-> GatheringOutcome(args.other)])
  /\ UNCHANGED <<args, pipelineVars, stunVars, serverVars>>

NextFunctions ==
  \/ Resolve \/ Post \/ ParseChangeRequest \/ Analyze \/ ClassifyAddress \/ ExtractIPInfo
  \/ AnalyzeRecord \/ AnalyzeOther

SpecFunctions == InitFunctions /\ [][NextFunctions]_vars

----------------------------------------------------------------------------
(* Properties of the classifier (under SpecClassify) *)

ArgL == args.ipInfo.isBehindLocalNAT
ArgG == args.ipInfo.isBehindCGNAT
ArgP == args.portMapping.isPortConsistent
ArgI == args.portMapping.isIPConsistent

\* C1: classifyNAT follows the first-match-wins decision order for every
\* combination of the four flags: both address flags give MULTIPLE_LAYERS,
\* neither gives NO_NAT, otherwise an inconsistent port or IP gives SYMMETRIC
\* and else CONE_NAT; the fallback return is never taken and no cone subtype
\* is ever returned.
C1_DecisionOrder ==
  called =>
    /\ ret.branch # 5
    /\ ret.natType \notin {"FULL_CONE", "RESTRICTED_CONE", "PORT_RESTRICTED_CONE"}
    /\ ret.natType =
         CASE ArgL /\ ArgG -> "MULTIPLE_LAYERS"
           [] ~ArgL /\ ~ArgG -> "NO_NAT"
           [] ArgL # ArgG /\ (~ArgP \/ ~ArgI) -> "SYMMETRIC"
           [] ArgL # ArgG /\ ArgP /\ ArgI -> "CONE_NAT"

C1_Witness ==
  called /\ ArgL /\ ~ArgG /\ ArgP /\ ~ArgI /\ ret.natType = "SYMMETRIC"

\* C2: when the two address flags are both true or both false, the result is
\* MULTIPLE_LAYERS, respectively NO_NAT, for every port mapping: the one the
\* function was applied to and every other one.
C2_AddressFactsDecide ==
  (called /\ ArgL = ArgG) =>
    /\ ret.natType = IF ArgL THEN "MULTIPLE_LAYERS" ELSE "NO_NAT"
    /\ \A pm \in PortMappingInputs : classifyNAT(args.ipInfo, pm) = ret.natType

C2_Witness ==
  called /\ ~ArgL /\ ~ArgG /\ ~ArgP /\ ~ArgI
  /\ Len(args.portMapping.observedMappings) = 2 /\ ret.natType = "NO_NAT"

\* C3 as stated: whenever isPortConsistent is false the result is SYMMETRIC,
\* whatever the address flags are.
C3_PortInconsistentIsSymmetric ==
  (called /\ ~ArgP) => ret.natType = "SYMMETRIC"

\* C3 amended: whenever isPortConsistent is false and exactly one of the two
\* address flags is true, the result is SYMMETRIC for both values of
\* isIPConsistent; with both flags true it is MULTIPLE_LAYERS and with both
\* false NO_NAT.
C3_PortInconsistentAmended ==
  (called /\ ~ArgP) =>
    ret.natType = IF ArgL # ArgG THEN "SYMMETRIC"
                  ELSE IF ArgL THEN "MULTIPLE_LAYERS" ELSE "NO_NAT"

C3_Witness ==
  called /\ ~ArgP /\ ArgI /\ ~ArgL /\ ArgG /\ ret.natType = "SYMMETRIC"

----------------------------------------------------------------------------
(* Properties of the detection run (under Spec and SpecTiming) *)

Settled == ~IsNull(detected)
ProbeOk == Settled /\ Val(detected).ok
ProbeFailedWith(m) == Settled /\ ~Val(detected).ok /\ Val(detected).error = m

\* a server-reflexive candidate that carries an external address and a port
ValidSrflx(c) ==
  /\ c.type = "srflx"
  /\ (c.address.kind = "str" \/ c.ip.kind = "str")
  /\ c.port > 0

ValidIdx == {i \in DOMAIN candidates : ValidSrflx(candidates[i])}
ValidPorts == {candidates[i].port : i \in ValidIdx}
ValidIPs ==
  {IF candidates[i].address.kind = "str" THEN candidates[i].address
   ELSE candidates[i].ip : i \in ValidIdx}

\* C4: once the probe resolved, with n the number of valid srflx mappings among
\* its candidates: n = 0 gives both flags false, n = 1 both true, n >= 2 gives
\* isPortConsistent iff one port was seen and isIPConsistent iff one IP was
\* seen; the confidence is low for n < 2 and high for n >= 2.
C4_AnalysisByValidCount ==
  ProbeOk =>
    LET v == Val(detected).value
        pm == v.portMapping
        n == Cardinality(ValidIdx)
    IN /\ Len(pm.observedMappings) = n
       /\ n = 0 => ~pm.isPortConsistent /\ ~pm.isIPConsistent
       /\ n = 1 => pm.isPortConsistent /\ pm.isIPConsistent
       /\ n >= 2 => /\ pm.isPortConsistent <=> Cardinality(ValidPorts) = 1
                    /\ pm.isIPConsistent <=> Cardinality(ValidIPs) = 1
       /\ v.confidence = IF n < 2 THEN "low" ELSE "high"

C4_Witness ==
  /\ ProbeOk
  /\ Cardinality(ValidIdx) = 2
  /\ Cardinality(ValidPorts) = 2
  /\ ~Val(detected).value.portMapping.isPortConsistent
  /\ Val(detected).value.portMapping.isIPConsistent
  /\ Val(detected).value.confidence = "high"

\* C5: a published result never has confidence "high" with fewer than two
\* observed mappings in its portMapping.
C5_HighNeedsTwoMappings ==
  result.confidence = "high" =>
    /\ ~IsNull(result.portMapping)
    /\ Len(Val(result.portMapping).observedMappings) >= 2

\* C6: on the basic path, when the probe resolved with a private local
\* address, a public address outside the carrier-grade range and at least two
\* valid mappings, the run is published as SUCCESS with confidence high, with
\* CONE_NAT when all mappings have one IP and one port and with SYMMETRIC when
\* two mappings differ in port.
C6_BasicPipeline ==
  (/\ method = "basic"
   /\ ProbeOk
   /\ isPrivateIP(Val(detected).value.ipInfo.localIP)
   /\ Val(detected).value.ipInfo.publicIP.kind = "str"
   /\ ~isCGNATIP(Val(detected).value.ipInfo.publicIP)
   /\ Cardinality(ValidIdx) >= 2) =>
    /\ result.state = "SUCCESS"
    /\ result.confidence = "high"
    /\ result.detectionMethod = "basic"
    /\ (Cardinality(ValidPorts) = 1 /\ Cardinality(ValidIPs) = 1)
         => result.natType = "CONE_NAT"
    /\ Cardinality(ValidPorts) > 1 => result.natType = "SYMMETRIC"

C6_Witness ==
  /\ method = "basic"
  /\ ProbeOk
  /\ Val(detected).value.ipInfo.localIP = PrivateLocal
  /\ Val(detected).value.ipInfo.publicIP = PublicA
  /\ Cardinality(ValidIdx) = 2
  /\ ValidPorts = {PortA, PortB}
  /\ result.state = "SUCCESS"
  /\ result.natType = "SYMMETRIC"
  /\ result.confidence = "high"

\* C7: a probe run that produced a host candidate and no server-reflexive
\* candidate fails with STUN_UNREACHABLE and is never published as SUCCESS.
C7_HostOnlyIsUnreachable ==
  (Settled /\ Count(candidates, "host") > 0 /\ Count(candidates, "srflx") = 0) =>
    /\ ProbeFailedWith(MSG_STUN_UNREACHABLE)
    /\ result.state # "SUCCESS"

\* C8 as stated: a ceiling expiry without a host candidate fails with TIMEOUT,
\* and TIMEOUT is reported only for a ceiling expiry without a host candidate.
C8_TimeoutOnlyWithoutHost ==
  /\ (ceilingFired /\ Count(candidates, "host") = 0) => ProbeFailedWith(MSG_TIMEOUT)
  /\ ProbeFailedWith(MSG_TIMEOUT) => (ceilingFired /\ Count(candidates, "host") = 0)

\* C8 amended: when the ceiling elapses before gathering finished the probe is
\* closed and fails with TIMEOUT, with or without a host candidate; a run
\* whose gathering finished before the ceiling, with or without a host
\* candidate, does not fail with TIMEOUT.
C8_TimeoutOnCeiling ==
  /\ ceilingFired =>
       /\ ProbeFailedWith(MSG_TIMEOUT)
       /\ pcPhase = "closed"
       /\ now >= TOTAL_TIMEOUT
  /\ (resolved /\ ~ceilingFired) => ~ProbeFailedWith(MSG_TIMEOUT)

C8_Witness ==
  /\ ceilingFired
  /\ Count(candidates, "host") > 0
  /\ Count(candidates, "srflx") > 0
  /\ ProbeFailedWith(MSG_TIMEOUT)

\* C9: without RTCPeerConnection every run ends in ERROR with error type
\* BROWSER_UNSUPPORTED, on the basic and on the advanced path.
C9_UnsupportedIsReported ==
  (~hasRTC /\ runs > 0) =>
    /\ result.state = "ERROR"
    /\ Val(result.error).type = "BROWSER_UNSUPPORTED"

\* C10: when detectNAT fails with TIMEOUT or STUN_UNREACHABLE, the published
\* result carries that error type, on the basic and on the advanced path.
C10_ProbeErrorKindSurfaces ==
  /\ ProbeFailedWith(MSG_TIMEOUT) =>
       (result.state = "ERROR" /\ Val(result.error).type = "TIMEOUT")
  /\ ProbeFailedWith(MSG_STUN_UNREACHABLE) =>
       (result.state = "ERROR" /\ Val(result.error).type = "STUN_UNREACHABLE")

\* the DetectionError enum
DetectionError ==
  {"TIMEOUT", "STUN_UNREACHABLE", "BROWSER_UNSUPPORTED", "PERMISSION_DENIED", "UNKNOWN"}

\* no run is in flight: every started run returned
NoRunInFlight == promise # "pending" /\ ~fetchPending

----------------------------------------------------------------------------
(* Properties of the hook with both callbacks (under SpecHook) *)

\* C12: in every reachable state of the hook natType is non-null exactly
\* when state = SUCCESS and error is non-null exactly when state = ERROR; in
\* particular both are null while state = DETECTING.
C12_FieldsFollowState ==
  /\ result.natType # NoValue <=> result.state = "SUCCESS"
  /\ ~IsNull(result.error) <=> result.state = "ERROR"

----------------------------------------------------------------------------
(* Properties of the probe's timing (under SpecTiming) *)

\* the pending adaptive waits that were started by the arrival of a mapping
MappingWaits ==
  {t \in timers : t.kind = "adaptive" /\ candidates[t.seq].type = "srflx"}

\* the wait started by the most recent arrival of a mapping
LatestMappingWaits ==
  {t \in MappingWaits : \A u \in MappingWaits : u.seq <= t.seq}

\* this step is the arrival of a mapping while a host candidate is known
MappingArrives ==
  /\ Len(candidates') = Len(candidates) + 1
  /\ candidates'[Len(candidates')].type = "srflx"
  /\ Count(candidates, "host") > 0

\* this step ends gathering by the expiry of an adaptive wait
AdaptiveWaitEndsGathering ==
  /\ ~resolved /\ resolved'
  /\ \E t \in timers \ timers' : t.kind = "adaptive"

\* the arrival of a mapping starts the wait of its count, from now
WaitStartedPerArrival ==
  MappingArrives =>
    \E t \in timers' \ timers :
      /\ t.kind = "adaptive"
      /\ t.deadline = now + WaitTime(Count(candidates', "srflx"))

\* an adaptive wait ends gathering only once the latest mapping's wait elapsed
LatestWaitElapsed ==
  AdaptiveWaitEndsGathering => \A u \in LatestMappingWaits : u.deadline <= now

\* C13: the arrival that brings the number of mappings to k, a host candidate
\* being known, starts a wait of 5000 ms (k = 1), 2000 ms (k = 2) or 1000 ms
\* (k >= 3) counted from that arrival, and no adaptive wait ends gathering
\* before the wait of the most recent mapping has elapsed.
C13_AdaptiveStoppingRule == [][WaitStartedPerArrival /\ LatestWaitElapsed]_vars

\* the first half of C13 alone
C13_WaitStartedPerArrival == [][WaitStartedPerArrival]_vars

----------------------------------------------------------------------------
(* Properties of the probe's connection (under Spec) *)

\* the current run reached the probe
ProbeStarted == runs > 0 /\ hasRTC

\* C14: every run that reaches the probe constructs exactly one peer
\* connection, configured with every configured STUN server, and every
\* mapping of the run's measurement record is the mapping of a candidate
\* that this connection's handler collected.
C14_SingleConnection ==
  /\ ProbeStarted =>
       /\ Len(pcs) = 1
       /\ {pcs[1].iceServers[i].urls : i \in DOMAIN pcs[1].iceServers}
            = {STUN_SERVERS[i].url : i \in DOMAIN STUN_SERVERS}
       /\ Len(pcs[1].iceServers) = Len(STUN_SERVERS)
  /\ ~ProbeStarted => pcs = <<>>
  /\ ProbeOk =>
       LET ms == Val(detected).value.portMapping.observedMappings IN
       \A k \in DOMAIN ms :
         \E i \in DOMAIN candidates :
           /\ candidates[i].type = "srflx"
           /\ MappingOf(candidates[i]) = Some(ms[k])

\* a resolved run whose record holds two mappings
C14_Witness ==
  /\ ProbeOk
  /\ Len(pcs) = 1
  /\ Len(pcs[1].iceServers) = 4
  /\ Len(Val(detected).value.portMapping.observedMappings) = 2

----------------------------------------------------------------------------
(* Properties of the STUN codec (under SpecCodec) *)

Parsed == called /\ args.op = "parse"
Built == called /\ args.op = "build"

\* C15: parseSTUNMessage returns no message for every buffer shorter than 20
\* bytes and for every buffer whose bytes 4..7 are not the magic cookie, and
\* it has read no attribute header when it does so.
C15_HeaderChecksFirst ==
  (Parsed /\ (Len(args.buffer) < 20 \/ Subarray(args.buffer, 4, 8) # <<33, 18, 164, 66>>)) =>
    /\ IsNull(ret.result)
    /\ ret.readAt = <<>>

\* a buffer with a wrong cookie and an attribute behind the header
C15_Witness ==
  /\ Parsed
  /\ Len(args.buffer) >= 28
  /\ Subarray(args.buffer, 4, 8) = <<33, 18, 164, 67>>
  /\ IsNull(ret.result)

\* C16: parseSTUNMessage returns no message whenever an attribute's declared
\* length runs past the end of the buffer, and every attribute value of a
\* returned message has its attribute's declared length.
C16_OverrunIsRejected ==
  Parsed =>
    /\ \A i \in DOMAIN ret.readAt :
         ret.readAt[i] + 4 + ReadUInt16BE(args.buffer, ret.readAt[i] + 2) > Len(args.buffer)
           => IsNull(ret.result)
    /\ ~IsNull(ret.result) =>
         \A t \in DOMAIN Val(ret.result).attributes :
           \E i \in DOMAIN ret.readAt :
             /\ ReadUInt16BE(args.buffer, ret.readAt[i]) = t
             /\ ReadUInt16BE(args.buffer, ret.readAt[i] + 2)
                  = Len(Val(ret.result).attributes[t])

\* C17: parsing the response built for (transactionId, address, port)
\* succeeds with type 0x0101, the same transaction ID and a length equal to
\* the attribute bytes, and the 0x0020 attribute XORed with the cookie (port
\* with its upper 16 bits, address with its 4 bytes) gives the address and
\* the port back.
C17_RoundTrip ==
  Built =>
    /\ ~IsNull(ret.parsed)
    /\ LET msg == Val(ret.parsed)
           v == msg.attributes[XOR_MAPPED_ADDRESS]
       IN /\ msg.type = 257
          /\ msg.transactionId = args.transactionId
          /\ msg.length = Len(ret.response) - 20
          /\ XOR_MAPPED_ADDRESS \in DOMAIN msg.attributes
          /\ Len(v) = 8
          /\ BitXor(v[3] * 256 + v[4], 8466) = args.clientPort
          /\ <<BitXor(v[5], 33), BitXor(v[6], 18), BitXor(v[7], 164), BitXor(v[8], 66)>>
               = args.clientAddr

\* a response with both attributes for a port whose two halves differ
C17_Witness ==
  /\ Built
  /\ args.clientPort = 40000
  /\ args.clientAddr = <<203, 0, 113, 10>>
  /\ Len(ret.response) = 44
  /\ RESPONSE_ORIGIN \in DOMAIN Val(ret.parsed).attributes

----------------------------------------------------------------------------
(* Properties of the STUN listeners (under SpecStun) *)

\* the delivered datagrams that parse as a binding request
IsBindingRequest(msg) ==
  /\ ~IsNull(parseSTUNMessage(msg))
  /\ Val(parseSTUNMessage(msg)).type = BINDING_REQUEST

\* the flags word of a datagram's CHANGE-REQUEST, 0 without one or with a short one
FlagsOf(msg) ==
  LET attributes == Val(parseSTUNMessage(msg)).attributes IN
  IF CHANGE_REQUEST \in DOMAIN attributes /\ Len(attributes[CHANGE_REQUEST]) >= 4
  THEN ReadUInt16BE(attributes[CHANGE_REQUEST], 0) * 65536
       + ReadUInt16BE(attributes[CHANGE_REQUEST], 2)
  ELSE 0

RepliesTo(i) == {k \in DOMAIN sent : sent[k].request = i}

\* the address and port a response's XOR-MAPPED-ADDRESS stands for
XorMappedOf(payload) ==
  LET v == Val(parseSTUNMessage(payload)).attributes[XOR_MAPPED_ADDRESS] IN
  [address |-> <<BitXor(v[5], 33), BitXor(v[6], 18), BitXor(v[7], 164), BitXor(v[8], 66)>>,
   port |-> BitXor(v[3] * 256 + v[4], 8466)]

\* C18: for every delivered datagram that parses as a binding request, on
\* every listener and with every change-request, the listener makes exactly
\* one send, to the datagram's source address and port, of a binding response
\* with the request's transaction ID and the source as XOR-mapped address.
C18_AlwaysOneReply ==
  \A i \in DOMAIN delivered :
    IsBindingRequest(delivered[i].msg) =>
      /\ Cardinality(RepliesTo(i)) = 1
      /\ \A k \in RepliesTo(i) :
           /\ sent[k].socket = delivered[i].listener
           /\ sent[k].toAddress = delivered[i].rinfo.address
           /\ sent[k].toPort = delivered[i].rinfo.port
           /\ ~IsNull(parseSTUNMessage(sent[k].payload))
           /\ Val(parseSTUNMessage(sent[k].payload)).type = 257
           /\ Val(parseSTUNMessage(sent[k].payload)).transactionId
                = Subarray(delivered[i].msg, 8, 20)
           /\ XorMappedOf(sent[k].payload) = delivered[i].rinfo

\* the tertiary listener answered a request with both change flags set
C18_Witness ==
  \E i \in DOMAIN delivered :
    /\ delivered[i].listener = 3480
    /\ IsBindingRequest(delivered[i].msg)
    /\ FlagsOf(delivered[i].msg) = 6
    /\ Cardinality(RepliesTo(i)) = 1

\* C19: for a binding request with change-port set and change-IP clear the
\* response leaves from the secondary port if and only if the receiving
\* listener is the primary; every other listener answers from its own port.
C19_ChangePortOnlyFromPrimary ==
  \A k \in DOMAIN sent :
    LET req == delivered[sent[k].request] IN
    FlagsOf(req.msg) = 2 =>
      /\ sent[k].fromPort = 3479 <=> req.listener = 3478
      /\ req.listener # 3478 => sent[k].fromPort = req.listener

\* C20: in every response that carries RESPONSE-ORIGIN, the port of that
\* attribute is the port of the socket the response was sent from.
C20_OriginIsSendingPort ==
  \A k \in DOMAIN sent :
    LET attributes == Val(parseSTUNMessage(sent[k].payload)).attributes IN
    RESPONSE_ORIGIN \in DOMAIN attributes =>
      ReadUInt16BE(attributes[RESPONSE_ORIGIN], 2) = sent[k].fromPort

\* the response a listener builds for a request without attributes from rinfo
PlainReply(listener, msg, rinfo) ==
  Header(257, 24, STUN_MAGIC_COOKIE, Subarray(msg, 8, 20))
  \o buildXorMappedAddress(rinfo.address, rinfo.port, Subarray(msg, 8, 20))
  \o buildResponseOrigin(LocalAddr, listener)

\* C21: a binding request whose change-request has change-IP set, alone or
\* with change-port, is answered once, through the listener's own socket and
\* on the path that reports a send failure to a callback, with the response
\* a request without change-request gets.
C21_ChangeIPNotHonored ==
  \A i \in DOMAIN delivered :
    (IsBindingRequest(delivered[i].msg) /\ FlagsOf(delivered[i].msg) \in {4, 6}) =>
      /\ Cardinality(RepliesTo(i)) = 1
      /\ \A k \in RepliesTo(i) :
           /\ sent[k].fromPort = delivered[i].listener
           /\ sent[k].responsePort = delivered[i].listener
           /\ sent[k].withCallback
           /\ sent[k].payload
                = PlainReply(delivered[i].listener, delivered[i].msg, delivered[i].rinfo)

\* the primary answered a request with both flags set
C21_Witness ==
  \E i \in DOMAIN delivered :
    /\ delivered[i].listener = 3478
    /\ IsBindingRequest(delivered[i].msg)
    /\ FlagsOf(delivered[i].msg) = 6
    /\ \E k \in RepliesTo(i) : sent[k].fromPort = 3478

\* this step delivers a datagram
Delivers == Len(delivered') = Len(delivered) + 1

\* the datagram this step delivers
Delivered == delivered'[Len(delivered')]

\* the listener of port dropped one of the datagrams delivered so far
DroppedBefore(port) ==
  \E i \in DOMAIN delivered :
    delivered[i].listener = port /\ ~IsBindingRequest(delivered[i].msg)

\* a datagram that is not a binding request is dropped: no send, no socket changes
DropIsSilent ==
  (Delivers /\ ~IsBindingRequest(Delivered.msg)) =>
    (sent' = sent /\ sockets' = sockets)

\* a listener that dropped a datagram answers its next binding request
AnswersAfterDrop ==
  (Delivers /\ IsBindingRequest(Delivered.msg) /\ DroppedBefore(Delivered.listener)) =>
    /\ Len(sent') = Len(sent) + 1
    /\ sent'[Len(sent')].request = Len(delivered')
    /\ sent'[Len(sent')].socket = Delivered.listener

\* C22: a datagram the parser rejects, or whose type is not 0x0001, produces
\* no response and leaves every socket as it was, and the listener answers
\* the next binding request it receives.
C22_DropsAreSilent == [][DropIsSilent /\ AnswersAfterDrop]_vars

\* the secondary dropped a binding response and then answered a request
C22_Witness ==
  /\ Len(delivered) = 2
  /\ delivered[1].listener = 3479 /\ delivered[2].listener = 3479
  /\ ~IsNull(parseSTUNMessage(delivered[1].msg))
  /\ Val(parseSTUNMessage(delivered[1].msg)).type = 257
  /\ IsBindingRequest(delivered[2].msg)
  /\ Len(sent) = 1
  /\ sent[1].request = 2

\* this step makes a send that fails
SendFails == Len(sent') = Len(sent) + 1 /\ sent'[Len(sent')].failed

\* C23: a send that fails, on the own-port path or on the primary's
\* change-port path, leaves the listener's socket open.
C23_SendFailureKeepsListener == [][SendFails => sockets' = sockets]_vars

----------------------------------------------------------------------------
(* Properties of the orchestrator's functions (under SpecFunctions) *)

Resolved == called /\ args.op = "resolve"

\* C24: the resolution of the three test outcomes follows the table: Test IV
\* failed gives SYMMETRIC whatever Tests II and III are; Test IV passed gives
\* FULL_CONE when Test II passed, else RESTRICTED_CONE when Test III passed,
\* else PORT_RESTRICTED_CONE.
C24_ResolutionTable ==
  Resolved =>
    /\ ~args.t4 => ret.natType = "SYMMETRIC"
    /\ (args.t4 /\ args.t2) => ret.natType = "FULL_CONE"
    /\ (args.t4 /\ ~args.t2 /\ args.t3) => ret.natType = "RESTRICTED_CONE"
    /\ (args.t4 /\ ~args.t2 /\ ~args.t3) => ret.natType = "PORT_RESTRICTED_CONE"

\* Test IV failed while Tests II and III passed
C24_Witness ==
  Resolved /\ ~args.t4 /\ args.t2 /\ args.t3 /\ ret.natType = "SYMMETRIC"

----------------------------------------------------------------------------
(* Properties of the advanced path (under Spec) *)

\* the external ports among the mappings of the published result
PublishedPorts ==
  {Val(result.portMapping).observedMappings[i].port :
     i \in DOMAIN Val(result.portMapping).observedMappings}

\* C25: whenever the observed mappings of a published advanced result hold
\* two different external ports, its verdict is SYMMETRIC.
C25_TwoPortsMeanSymmetric ==
  (/\ result.state = "SUCCESS"
   /\ result.detectionMethod = "advanced"
   /\ Cardinality(PublishedPorts) >= 2) =>
    result.natType = "SYMMETRIC"

\* the POST of the current run is settled by this step
PostSettles == fetchPending /\ ~fetchPending'

\* the result is the local probe's verdict, published with method basic
BasicVerdictOf(r, basic) ==
  /\ r.state = "SUCCESS"
  /\ r.detectionMethod = "basic"
  /\ r.natType = classifyNAT(basic.ipInfo, basic.portMapping)

\* when the POST settles the run is published as SUCCESS, with the
\* orchestrator's verdict or with the local probe's
PostNeverEndsInError ==
  PostSettles =>
    (\/ (result'.state = "SUCCESS" /\ result'.detectionMethod = "advanced")
     \/ BasicVerdictOf(result', Val(basicResult)))

\* a run made without the capability publishes the local probe's verdict
BasicRunPublishesVerdict ==
  (method' = "basic" /\ ProbeOk') => BasicVerdictOf(result', Val(detected').value)

\* C26: a run does not end in ERROR because the orchestrator cannot be
\* reached: when the POST fails or is answered without success the run is
\* published as SUCCESS with the local probe's verdict and method basic, and
\* a run made while the capability check did not succeed is published with
\* the local probe's verdict once its probe resolved.
C26_FallsBackToBasic == [][PostNeverEndsInError /\ BasicRunPublishesVerdict]_vars

\* the second half of C26 alone: without the capability, the basic verdict
C26_BasicWithoutCapability ==
  (method = "basic" /\ ProbeOk) => BasicVerdictOf(result, Val(detected).value)

----------------------------------------------------------------------------
(* Properties of the POST handler (under SpecFunctions) *)

Posted == called /\ args.op = "post"

\* the request body has no publicIP or no publicPort
LacksField(body) ==
  body.kind # "object" \/ body.publicIP.kind = "null" \/ body.publicPort = NoPort

Rejected(code) ==
  /\ ret.status = code
  /\ ~ret.success
  /\ ~IsNull(ret.error)
  /\ ~ret.ranTests

\* C27 as stated: a POST whose body lacks publicIP or publicPort is answered
\* with status 400, success = false and an error message, and no step of the
\* test sequence runs.
C27_MissingFieldsGive400 ==
  (Posted /\ LacksField(args.body)) => Rejected(400)

\* C27 amended: a body that is an object or another non-null JSON value and
\* whose publicIP or publicPort is missing, empty or 0 is answered with status
\* 400; a body that is JSON null or is not JSON is answered with status 500;
\* both with success = false and an error message; the test sequence runs
\* only for a body that has both fields, which is answered with status 200.
C27_MissingFieldsRejected ==
  Posted =>
    /\ (/\ args.body.kind \in {"object", "number"}
        /\ (\/ args.body.publicIP.kind \in {"null", "empty"}
            \/ args.body.publicPort \in {NoPort, 0})) => Rejected(400)
    /\ args.body.kind \in {"null", "invalid"} => Rejected(500)
    /\ ret.ranTests =>
         /\ args.body.kind = "object"
         /\ args.body.publicIP.kind = "str"
         /\ args.body.publicPort > 0
         /\ ret.status = 200
         /\ ret.success

\* a body with publicIP and without publicPort
C27_Witness ==
  /\ Posted
  /\ args.body.kind = "object"
  /\ args.body.publicIP = PublicA
  /\ args.body.publicPort = NoPort
  /\ Rejected(400)

----------------------------------------------------------------------------
(* Properties of starting a run (under Spec) *)

RunStarts == runs' = runs + 1

\* the result is DETECTING and carries no outcome
FreshDetecting(r, startedAt) ==
  /\ r.state = "DETECTING"
  /\ r.startedAt = startedAt
  /\ r.natType = NoValue
  /\ r.error = Null
  /\ r.ipInfo = Null
  /\ r.portMapping = Null
  /\ r.completedAt = NoTime
  /\ r.durationMs = NoTime
  /\ r.confidence = NoValue

\* the result is the failure of a run that started and ended at startedAt
\* because the browser has no RTCPeerConnection
OwnUnsupportedError(r, startedAt) ==
  /\ r.state = "ERROR"
  /\ r.startedAt = startedAt
  /\ r.completedAt = startedAt
  /\ r.durationMs = 0
  /\ r.natType = NoValue
  /\ r.ipInfo = Null
  /\ r.portMapping = Null
  /\ r.confidence = NoValue
  /\ r.error # Null
  /\ r.error[1].message = MSG_BROWSER_UNSUPPORTED

RunStartsFromRest ==
  RunStarts => result.state \in {"IDLE", "SUCCESS", "ERROR"}

RunStartResets ==
  RunStarts =>
    /\ runStartedAt' = now'
    /\ hasRTC => FreshDetecting(result', now')
    /\ ~hasRTC => OwnUnsupportedError(result', now')

\* C28: runDetection starts from IDLE, SUCCESS or ERROR and moves the result to
\* DETECTING with a fresh startedAt and with natType, error, ipInfo,
\* portMapping, completedAt, durationMs and confidence null (in a browser
\* without RTCPeerConnection the run fails in the same step and the result is
\* that failure, with both times fresh); while a run is DETECTING the result
\* shows nothing of an earlier outcome.
C28_NewRunResets == [][RunStartsFromRest /\ RunStartResets]_vars

\* whenever the result is DETECTING it is the fresh one of the current run
C28_NothingStaleWhileDetecting ==
  result.state = "DETECTING" => FreshDetecting(result, runStartedAt)

\* a second run, started from a terminal state, is detecting
C28_Witness ==
  /\ runs = 2
  /\ FreshDetecting(result, runStartedAt)

----------------------------------------------------------------------------
(* Properties of the port-mapping analysis (under SpecFunctions) *)

Analyzed == called /\ args.op = "analyze"

\* a server-reflexive entry with no external address or with port zero
InvalidSrflx(c) ==
  /\ c.type = "srflx"
  /\ \/ (c.address.kind # "str" /\ c.ip.kind # "str")
     \/ c.port = 0

NotInvalidSrflx(c) == ~InvalidSrflx(c)

UsableSrflx(c) == c.type = "srflx" /\ ~InvalidSrflx(c)

\* the external address and port of a valid entry
ExternalOf(c) ==
  [ip |-> IF c.address.kind = "str" THEN c.address ELSE c.ip, port |-> c.port]

\* C29: analyzePortMapping gives the same isPortConsistent, isIPConsistent and
\* observedMappings on a candidate list as on the list without its invalid
\* srflx entries (no external address, or port zero), and observedMappings
\* holds exactly the address and port of the valid srflx entries, in order.
C29_InvalidEntriesIgnored ==
  Analyzed =>
    LET kept == SelectSeq(args.candidates, NotInvalidSrflx)
        valid == SelectSeq(args.candidates, UsableSrflx)
        onKept == analyzePortMapping(kept)
    IN /\ ret.isPortConsistent = onKept.isPortConsistent
       /\ ret.isIPConsistent = onKept.isIPConsistent
       /\ ret.observedMappings = onKept.observedMappings
       /\ ret.observedMappings = [i \in 1..Len(valid) |-> ExternalOf(valid[i])]
       /\ \A i \in DOMAIN ret.observedMappings :
            /\ ret.observedMappings[i].ip.kind = "str"
            /\ ret.observedMappings[i].port > 0

\* two valid entries with one port and one address, and between them an entry
\* with port zero: the analysis still reports consistency
C29_Witness ==
  /\ Analyzed
  /\ Len(args.candidates) = 3
  /\ UsableSrflx(args.candidates[1])
  /\ InvalidSrflx(args.candidates[2])
  /\ args.candidates[2].port = 0
  /\ UsableSrflx(args.candidates[3])
  /\ Len(ret.observedMappings) = 2
  /\ ret.isPortConsistent
  /\ ret.isIPConsistent

----------------------------------------------------------------------------
(* Properties of the CHANGE-REQUEST decoder (under SpecFunctions) *)

ChangeRequestParsed == called /\ args.op = "changeRequest"

\* bit n of the 32-bit big-endian word in the first four bytes, for n < 8:
\* it lies in the fourth byte
FlagBit(value, n) == (value[4] \div (2 ^ n)) % 2 = 1

\* C30: parseChangeRequest gives changeIP true iff bit 2 (mask 0x04) of the
\* 32-bit big-endian flags word is set and changePort true iff bit 1 (mask
\* 0x02) is set, whatever the other bits are; a value shorter than 4 bytes
\* gives both flags false.
C30_FlagsDecoded ==
  ChangeRequestParsed =>
    IF Len(args.attrValue) < 4
    THEN ret = [changeIP |-> FALSE, changePort |-> FALSE]
    ELSE /\ ret.changeIP = FlagBit(args.attrValue, 2)
         /\ ret.changePort = FlagBit(args.attrValue, 1)

\* a word with its top bit and every low bit but bit 1 set
C30_Witness ==
  /\ ChangeRequestParsed
  /\ args.attrValue = <<255, 0, 0, 253>>
  /\ ret.changeIP
  /\ ~ret.changePort

----------------------------------------------------------------------------
(* Properties of the address classification (under SpecFunctions) *)

AddressClassified == called /\ args.op = "address"
IPInfoExtracted == called /\ args.op = "ipInfo"

\* four octets, each in 0..255
DottedIPv4(ip) ==
  /\ ip.kind = "str"
  /\ Len(ip.parts) = 4
  /\ \A i \in 1..4 : ip.parts[i] \in 0..255

\* the address as a 32-bit number lies in base/prefix, for prefix <= 16:
\* only the first two octets matter
InRange(ip, base1, base2, prefix) ==
  LET top == ip.parts[1] * 256 + ip.parts[2]
      base == base1 * 256 + base2
      size == 2 ^ (16 - prefix)
  IN top \div size = base \div size

InPrivateRange(ip) ==
  InRange(ip, 10, 0, 8) \/ InRange(ip, 172, 16, 12) \/ InRange(ip, 192, 168, 16)

InCGNATRange(ip) == InRange(ip, 100, 64, 10)

AddressRangesRight ==
  (AddressClassified /\ DottedIPv4(args.ip)) =>
    /\ ret.isPrivate = InPrivateRange(args.ip)
    /\ ret.isCGNAT = InCGNATRange(args.ip)

IPInfoFlagsRight ==
  (IPInfoExtracted /\ ret.ok) =>
    LET info == ret.value IN
    /\ info.isBehindLocalNAT =
         (\/ (info.localIP.kind = "str" /\ info.localIP.local)
          \/ (DottedIPv4(info.localIP) /\ InPrivateRange(info.localIP)))
    /\ info.isBehindCGNAT =
         (/\ info.publicIP.kind = "str"
          /\ DottedIPv4(info.publicIP)
          /\ InCGNATRange(info.publicIP))

\* C31: for every dotted IPv4 address isPrivateIP is true iff the address is in
\* 10.0.0.0/8, 172.16.0.0/12 or 192.168.0.0/16 and isCGNATIP is true iff it is
\* in 100.64.0.0/10; extractIPInfo sets isBehindLocalNAT iff the local address
\* is private or ends in ".local", and isBehindCGNAT iff there is a public
\* address and it is in the CGNAT range.
C31_AddressClassification == AddressRangesRight /\ IPInfoFlagsRight

\* the last address of 100.64.0.0/10 seen as public address, behind an
\* obfuscated local name
C31_Witness ==
  /\ IPInfoExtracted
  /\ ret.ok
  /\ ret.value.localIP = MDNSName
  /\ ret.value.publicIP = IPv4(100, 127, 255, 1)
  /\ ret.value.isBehindLocalNAT
  /\ ret.value.isBehindCGNAT

----------------------------------------------------------------------------
(* Properties of repeated analysis (under SpecFunctions) *)

Reanalyzed == called /\ args.op = "reanalyze"

\* the facts the analyzer reports: nothing when it failed
FactsOf(outcome) ==
  IF ~outcome.ok THEN <<>>
  ELSE <<outcome.value.portMapping.isPortConsistent,
         outcome.value.portMapping.isIPConsistent,
         outcome.value.portMapping.observedMappings,
         outcome.value.confidence>>

----------------------------------------------------------------------------
(* Properties of the attribute walk (under SpecCodec) *)

WellFormedParsed == called /\ args.op = "parseWellFormed"

\* the offset of the i-th attribute header in the message
BoundaryOf(attrs, i) == 20 + Len(EncodeAttrs(SubSeq(attrs, 1, i - 1), 0))

\* the last attribute of type t
LastOfType(attrs, t) ==
  attrs[CHOOSE i \in DOMAIN attrs :
          /\ attrs[i].type = t
          /\ \A j \in DOMAIN attrs : attrs[j].type = t => j <= i]

\* C33: on a well-formed message whose attributes are each padded to a 4-byte
\* boundary parseSTUNMessage reads an attribute header at every true
\* attribute boundary and nowhere else, every such offset is a multiple of 4
\* from the end of the header, and the value it returns for a type is exactly
\* the declared-length value bytes of that attribute, padding excluded.
C33_AttributesAtTrueBoundaries ==
  WellFormedParsed =>
    /\ ~IsNull(ret.result)
    /\ ret.readAt = [i \in 1..Len(args.attrs) |-> BoundaryOf(args.attrs, i)]
    /\ \A i \in DOMAIN ret.readAt : (ret.readAt[i] - 20) % 4 = 0
    /\ DOMAIN Val(ret.result).attributes = {args.attrs[i].type : i \in DOMAIN args.attrs}
    /\ \A t \in DOMAIN Val(ret.result).attributes :
         Val(ret.result).attributes[t] = LastOfType(args.attrs, t).value

\* a 1-byte and a 5-byte value padded with 255, then a CHANGE-REQUEST
C33_Witness ==
  /\ WellFormedParsed
  /\ args.padByte = 255
  /\ Len(args.attrs) = 3
  /\ Len(args.attrs[1].value) = 1
  /\ Len(args.attrs[2].value) = 5
  /\ args.attrs[1].type = 32802 /\ args.attrs[2].type = 32802
  /\ args.attrs[3].type = CHANGE_REQUEST
  /\ ret.readAt = <<20, 28, 40>>
  /\ Len(Val(ret.result).attributes[32802]) = 5
  /\ Len(Val(ret.result).attributes[CHANGE_REQUEST]) = Len(args.attrs[3].value)

----------------------------------------------------------------------------
(* Properties of the end of gathering (under SpecTiming) *)

SameRun == runs' = runs

\* the probe of a run that returned is closed
ClosedWhenSettled == (ProbeStarted /\ Settled) => pcPhase = "closed"

\* once the probe returned, nothing in the same run changes what it returned
DecidedOnce ==
  (Settled /\ SameRun) => (detected' = detected /\ promise' = promise)

\* while gathering, a step that is neither a candidate nor the passing of time
\* (a completion signal, an adaptive wait or the ceiling) ends the probe
FirstEventEndsGathering ==
  (pcPhase = "gathering" /\ ~Settled /\ SameRun) =>
    \/ candidates' # candidates
    \/ now' # now
    \/ (~IsNull(detected') /\ pcPhase' = "closed" /\ promise' # "pending")

\* C34: gathering ends at the first completion signal, adaptive-wait expiry or
\* ceiling expiry; that event decides what the probe returns, no later event
\* of the run changes it, and the probe's connection is closed whenever the
\* probe has returned.
C34_FirstEventDecides ==
  []ClosedWhenSettled /\ [][DecidedOnce /\ FirstEventEndsGathering]_vars

\* the ceiling decided the run and an adaptive wait ran out afterwards
C34_Witness ==
  /\ ceilingFired
  /\ resolved
  /\ now > TOTAL_TIMEOUT
  /\ ProbeFailedWith(MSG_TIMEOUT)
  /\ pcPhase = "closed"

----------------------------------------------------------------------------
(* Progress of a run (under SpecLive) *)

Detecting == result.state = "DETECTING"
Terminal == result.state \in {"SUCCESS", "ERROR"}

\* C35: every run that enters DETECTING eventually reaches SUCCESS or ERROR, on
\* the basic and on the advanced path, also when the POST of the advanced
\* path is never answered.
C35_DetectingEnds == Detecting ~> Terminal

\* the probe of every run returns
C35_ProbeReturns == (promise = "pending") ~> (promise # "pending")

\* a run on the basic path ends
C35_BasicRunEnds == (Detecting /\ method = "basic") ~> Terminal

----------------------------------------------------------------------------
(* Properties of the serialization of runs (under Spec) *)

RunInFlight == promise = "pending" \/ fetchPending

\* the published result is the one the current run's probe led to
BelongsToCurrentRun ==
  /\ Settled
  /\ result.state = "SUCCESS" =>
       /\ Val(detected).ok
       /\ result.ipInfo = Some(Val(detected).value.ipInfo)
       /\ result.portMapping = Some(Val(detected).value.portMapping)
       /\ result.detectionMethod = method
  /\ ~Val(detected).ok =>
       /\ result.state = "ERROR"
       /\ Val(result.error).message = Val(detected).error

RunStartsWhenNoneInFlight ==
  RunStarts => (TriggerOffered /\ ~RunInFlight)

\* C36: the trigger is offered in IDLE, SUCCESS and ERROR only, so a run starts
\* only while no run is in flight, the result is DETECTING exactly while the
\* one run is in flight, and a published terminal result is that of the most
\* recently started run.
C36_RunsAreSerialized ==
  /\ [](RunInFlight => Detecting)
  /\ [](Detecting => RunInFlight)
  /\ []((runs > 0 /\ Terminal) => BelongsToCurrentRun)
  /\ [][RunStartsWhenNoneInFlight]_vars

\* the second run has published its own success
C36_Witness ==
  /\ runs = 2
  /\ result.state = "SUCCESS"
  /\ ~RunInFlight
  /\ BelongsToCurrentRun

----------------------------------------------------------------------------
(* Properties of the listeners' independence (under SpecStun) *)

\* every response went out through the socket of the listener that received
\* the request
OwnSocketOnly ==
  \A k \in DOMAIN sent : sent[k].socket = delivered[sent[k].request].listener

\* the response to a datagram is the one its listener gives to that datagram
\* alone, whatever was delivered before it and to whom
AnsweredAsIfAlone ==
  \A i \in DOMAIN delivered :
    LET d == delivered[i]
        alone == HandleMessage(d.listener, d.msg, d.rinfo)
    IN IF IsNull(alone) THEN RepliesTo(i) = {}
       ELSE /\ Cardinality(RepliesTo(i)) = 1
            /\ \A k \in RepliesTo(i) :
                 /\ sent[k].payload = Val(alone).payload
                 /\ sent[k].toAddress = d.rinfo.address
                 /\ sent[k].toPort = d.rinfo.port
                 /\ Subarray(sent[k].payload, 8, 20) = Subarray(d.msg, 8, 20)

\* handling a datagram leaves the sockets of the other listeners as they were
OthersUntouched ==
  Delivers => \A q \in PORTS \ {Delivered.listener} : sockets'[q] = sockets[q]

\* C37: a listener's handler sends only through its own socket, changes no
\* other listener's socket, and answers each datagram as it would alone,
\* whatever the other listeners received before.
C37_ListenersIndependent ==
  []OwnSocketOnly /\ []AnsweredAsIfAlone /\ [][OthersUntouched]_vars

\* the primary lost its socket to a failed change-port send, and the
\* secondary then answered a request of its own
C37_Witness ==
  /\ Len(sent) = 2
  /\ sent[1].socket = PORTS_PRIMARY /\ sent[1].failed /\ ~sent[1].withCallback
  /\ sent[2].socket = PORTS_SECONDARY /\ ~sent[2].failed
  /\ sockets[PORTS_PRIMARY] = "closed"
  /\ sockets[PORTS_SECONDARY] = "listening"
  /\ sockets[PORTS_TERTIARY] = "listening"

----------------------------------------------------------------------------
(* Properties of the custom server's shutdown (under SpecServer) *)

TriggerArrives == Len(triggers') = Len(triggers) + 1
LatestTrigger == triggers'[Len(triggers')]

ShutdownStateUnchanged ==
  UNCHANGED <<sockets, isShuttingDown, signalHandlers, stunsClosed, httpServer,
              fallbackTimer, shutdownRuns>>

LaterTriggersIgnored ==
  (TriggerArrives /\ isShuttingDown) => (ShutdownStateUnchanged /\ exitCode' = exitCode)

\* a later error is ignored; a later signal finds no listener and ends the
\* process; neither runs the closing sequence again
LaterTriggersRunNothing ==
  (TriggerArrives /\ isShuttingDown) =>
    /\ ShutdownStateUnchanged
    /\ exitCode' = IF LatestTrigger \in {"SIGTERM", "SIGINT"} THEN "signal" ELSE exitCode

\* httpServer.close is called only when every started listener was counted
HttpCloseAfterAllStuns ==
  (httpServer # "closing" /\ httpServer' = "closing") =>
    /\ stunsClosed' = Cardinality(StartedStuns)
    /\ \A p \in StartedStuns : sockets'[p] = "closed"

\* C38 as stated: the closing sequence runs at most once, every trigger that
\* arrives once isShuttingDown is set is ignored, and closing of the HTTP
\* server starts only after every started STUN socket reported closed or was
\* found already closed.
C38_ShutdownOnceTriggersIgnored ==
  [](shutdownRuns <= 1) /\ [][LaterTriggersIgnored /\ HttpCloseAfterAllStuns]_vars

\* C38 amended: the closing sequence runs at most once; an uncaught error
\* that arrives once isShuttingDown is set is ignored, a SIGTERM or SIGINT
\* that arrives then ends the process at once without running the sequence
\* again; closing of the HTTP server starts only after every started STUN
\* socket reported closed or was found already closed.
C38_ShutdownOnce ==
  [](shutdownRuns <= 1) /\ [][LaterTriggersRunNothing /\ HttpCloseAfterAllStuns]_vars

\* three triggers arrived, the sequence ran once, all three listeners
\* reported closed and the HTTP server is closing
C38_Witness ==
  /\ Len(triggers) = 3
  /\ triggers[3] \in {"uncaughtException", "unhandledRejection"}
  /\ shutdownRuns = 1
  /\ stunsClosed = 3
  /\ \A p \in PORTS : sockets[p] = "closed"
  /\ httpServer = "closing"
  /\ Running

\* C39: once shutdown has begun the process exits, by the fallback timer at
\* the latest, also when a STUN close callback never fires.
C39_ShutdownEndsProcess == isShuttingDown ~> ~Running

----------------------------------------------------------------------------
(* Properties of the parser's loop (under SpecCodec) *)

AnyParsed == called /\ args.op \in {"parse", "parseWellFormed"}

\* the buffer the parser was given
ParsedBuffer ==
  IF args.op = "parse" THEN args.buffer
  ELSE WellFormedMessage(args.attrs, args.padByte)

\* the last offset at which the parser read a header of type t
LastReadOf(t) ==
  CHOOSE o \in {ret.readAt[i] : i \in DOMAIN ret.readAt} :
    /\ ReadUInt16BE(ParsedBuffer, o) = t
    /\ \A i \in DOMAIN ret.readAt :
         ReadUInt16BE(ParsedBuffer, ret.readAt[i]) = t => ret.readAt[i] <= o

\* bytes from..to-1 of the buffer, as many of them as the buffer holds
BytesFrom(buffer, from, to) ==
  [i \in 1..((IF to > Len(buffer) THEN Len(buffer) ELSE to) - from) |-> buffer[from + i]]

\* C40: parseSTUNMessage ends on every buffer with no message or a message;
\* it reads an attribute header only where 4 bytes remain, each header at
\* least 4 bytes behind the one before, starting at offset 20 and inside the
\* declared length; and the value kept for an attribute type is that of the
\* last header of that type.
C40_LoopAdvancesLastWins ==
  AnyParsed =>
    /\ \A i \in DOMAIN ret.readAt :
         /\ ret.readAt[i] >= 20
         /\ ret.readAt[i] + 4 <= Len(ParsedBuffer)
         /\ ret.readAt[i] < 20 + ReadUInt16BE(ParsedBuffer, 2)
         /\ i > 1 => ret.readAt[i] >= ret.readAt[i - 1] + 4
    /\ Len(ret.readAt) * 4 <= Len(ParsedBuffer)
    /\ IsNull(ret.result) => ret.readAt = <<>>
    /\ ~IsNull(ret.result) =>
         LET attributes == Val(ret.result).attributes IN
         /\ DOMAIN attributes
              = {ReadUInt16BE(ParsedBuffer, ret.readAt[i]) : i \in DOMAIN ret.readAt}
         /\ \A t \in DOMAIN attributes :
              LET o == LastReadOf(t) IN
              attributes[t]
                = BytesFrom(ParsedBuffer, o + 4, o + 4 + ReadUInt16BE(ParsedBuffer, o + 2))

\* two CHANGE-REQUEST attributes with different flags: the second is kept
C40_Witness ==
  /\ Parsed
  /\ ret.readAt = <<20, 28>>
  /\ ReadUInt16BE(args.buffer, 20) = CHANGE_REQUEST
  /\ ReadUInt16BE(args.buffer, 28) = CHANGE_REQUEST
  /\ Subarray(args.buffer, 24, 28) = <<0, 0, 0, 2>>
  /\ ~IsNull(ret.result)
  /\ Val(ret.result).attributes[CHANGE_REQUEST] = <<0, 0, 0, 4>>

====
